---- MODULE Spec2Model ----
(***************************************************************************)
(* A model of the FEAPACK solver core: the model database (MDB), the DOF   *)
(* enumerator (MDB._buildDOFs), the assembly of the prescribed             *)
(* displacement vector and of the sparse system matrices, the COO -> CSR   *)
(* conversion (SparseCSR), the validator (checkMDB) and the driver         *)
(* (solve).                                                                *)
(*                                                                         *)
(* Conventions.  A Python tuple is a sequence; the Python index i is the   *)
(* position i + 1 (operator At).  An optional value is None == <<>> or     *)
(* Some(x) == <<x>>.  Real numbers are modelled by integers: every         *)
(* operation the modelled code applies to them (copy, compare with zero,   *)
(* add) is exact on the integers.                                          *)
(***************************************************************************)
EXTENDS Integers, Sequences, FiniteSets, TLC

VARIABLES
    pc,                  \* position of the run
    mesh,                \* MDB.mesh: the mesh, its nodes and elements with their DOF tuples
    nodeSets,            \* MDB.nodeSets: the dict, in insertion order, of NodeSet.indices
    elementSets,         \* MDB.elementSets: the dict of ElementSet.indices
    surfaceSets,         \* MDB.surfaceSets: the dict of SurfaceSet.indices
    materials,           \* MDB.materials
    sections,            \* MDB.sections
    concentratedLoads,   \* MDB.concentratedLoads
    surfaceTractions,    \* MDB.surfaceTractions
    pressures,           \* MDB.pressures
    bodyLoads,           \* MDB.bodyLoads
    accelerations,       \* MDB.accelerations
    boundaryConditions,  \* MDB.boundaryConditions
    args,                \* solve / checkMDB: the arguments of the call
    report,              \* the (errors, warnings) checkMDB returned
    log,                 \* the messages _log has written, in order
    outFile,             \* the .out file of the job
    Ub,                  \* result of assemblePrescribedDisplacementVector
    assembled,           \* assembleMatrix: its COO arrays, slot ranges and the four blocks
    coo,                 \* COO-type data handed to SparseCSR: shape, row/column indices, values
    csr,                 \* the SparseCSR object built from coo
    fs,                  \* the files on disk, by path: absent, or the lines of the file
    odb,                 \* the ODB object the script holds
    passed,              \* the frames the script has passed to writeNextFrame, in order
    call                 \* the last call of the script: its arguments and how it ended

\* the parts of the MDB only the validator and the element properties read
modelVars == <<elementSets, surfaceSets, materials, sections, concentratedLoads,
               surfaceTractions, pressures, bodyLoads, accelerations>>

runVars == <<args, report, log, outFile>>

vars == <<mesh, nodeSets, elementSets, surfaceSets, materials, sections, concentratedLoads,
          surfaceTractions, pressures, bodyLoads, accelerations, boundaryConditions,
          args, report, log, outFile, pc, Ub, assembled, coo, csr, fs, odb, passed, call>>

\* the files, the ODB object and the calls of a script that reads and writes ODBs
ioVars == <<fs, odb, passed, call>>

-----------------------------------------------------------------------------
(* Generic helpers                                                         *)

None == <<>>

Some(x) == <<x>>

Optional(S) == {None} \cup {Some(x) : x \in S}

At(t, i) == t[i + 1]

Range0(k) == 0 .. (k - 1)

Elems(t) == {t[k] : k \in 1 .. Len(t)}

Zeros(k) == [p \in 1 .. k |-> 0]

\* An attribute that is not assigned yet.  Values of different kinds cannot be
\* compared, so the marker has the kind of the values the attribute takes once
\* it is assigned: a record, a tuple of numbers no DOF tuple equals, a number
\* no DOF count equals, a tuple no tuple of nodes equals.
Unset == [unset |-> TRUE]

UnsetDOFs == <<0 - 1>>

UnsetCount == 0 - 1

UnsetNodes == <<Unset>>

\* an exception, by the name of its class
ValueError == [raised |-> "ValueError"]

KeyError == [raised |-> "KeyError"]

IndexError == [raised |-> "IndexError"]

RuntimeError == [raised |-> "RuntimeError"]

MissingFrameError == [raised |-> "MissingFrameError"]

FileNotFoundError == [raised |-> "FileNotFoundError"]

Raised(x) == "raised" \in DOMAIN x

\* a call that returns a value, a call that raises an exception
Returns(value) == [raised |-> None, value |-> value]

Raises(exception) == [raised |-> Some(exception)]

\* whether a value of any kind is Unset
IsUnset(x) ==
    ToString(x) \in {ToString(Unset), ToString(UnsetDOFs), ToString(UnsetCount),
                     ToString(UnsetNodes)}

Min(S) == CHOOSE x \in S : \A y \in S : x <= y

Max(S) == CHOOSE x \in S : \A y \in S : x >= y

\* a dict is the sequence of its (key, value) items, in insertion order
Keys(dict) == {dict[k][1] : k \in 1 .. Len(dict)}

Values(dict) == [k \in 1 .. Len(dict) |-> dict[k][2]]

Get(dict, key) == dict[CHOOSE k \in 1 .. Len(dict) : dict[k][1] = key][2]

\* tuple(sorted(set(indices)))
RECURSIVE SortedTuple(_)
SortedTuple(S) ==
    IF S = {} THEN <<>>
    ELSE LET lo == Min(S) IN <<lo>> \o SortedTuple(S \ {lo})

RECURSIVE Flatten(_)
Flatten(tuples) == IF tuples = <<>> THEN <<>> ELSE Head(tuples) \o Flatten(Tail(tuples))

\* NodeSet.__init__: the indices are unique and sorted
NodeSet(indices) == SortedTuple(indices)

-----------------------------------------------------------------------------
(* Text: a str is a string; the characters of a string are its substrings  *)
(* of length one.  A float is modelled by a whole number, and its text is  *)
(* the one Python prints for a float without a fraction ("2.0")            *)

Whitespace == {" ", "\t", "\n", "\r"}

Ch(text, i) == SubSeq(text, i, i)

\* str.strip()
strip(text) ==
    LET Blank(i) == Ch(text, i) \in Whitespace
        first == CHOOSE i \in 1 .. Len(text) : ~Blank(i) /\ \A j \in 1 .. i - 1 : Blank(j)
        last == CHOOSE i \in 1 .. Len(text) :
                    ~Blank(Len(text) + 1 - i) /\ \A j \in 1 .. i - 1 : Blank(Len(text) + 1 - j)
    IN IF \A i \in 1 .. Len(text) : Blank(i) THEN ""
       ELSE SubSeq(text, first, Len(text) + 1 - last)

\* str.startswith(prefix)
startswith(text, prefix) ==
    Len(text) >= Len(prefix) /\ SubSeq(text, 1, Len(prefix)) = prefix

\* str.split(sep, maxsplit) for a separator of one character; maxsplit = -1: no limit
split(text, sep, maxsplit) ==
    LET all == SortedTuple({i \in 1 .. Len(text) : Ch(text, i) = sep})
        n == IF maxsplit < 0 \/ maxsplit > Len(all) THEN Len(all) ELSE maxsplit
    IN [k \in 1 .. n + 1 |->
           SubSeq(text,
                  IF k = 1 THEN 1 ELSE all[k - 1] + 1,
                  IF k = n + 1 THEN Len(text) ELSE all[k] - 1)]

\* sep.join(items)
RECURSIVE join(_, _)
join(sep, items) ==
    IF items = <<>> THEN ""
    ELSE IF Len(items) = 1 THEN items[1]
    ELSE items[1] \o sep \o join(sep, Tail(items))

Digits == {"0", "1", "2", "3", "4", "5", "6", "7", "8", "9"}

DigitValue(c) == CHOOSE d \in 0 .. 9 : ToString(d) = c

IsDigits(text) == text # "" /\ \A i \in 1 .. Len(text) : Ch(text, i) \in Digits

RECURSIVE Decimal(_)
Decimal(text) ==
    IF text = "" THEN 0
    ELSE 10 * Decimal(SubSeq(text, 1, Len(text) - 1)) + DigitValue(Ch(text, Len(text)))

\* a numeral without its sign
Unsigned(body) ==
    IF startswith(body, "-") \/ startswith(body, "+") THEN SubSeq(body, 2, Len(body))
    ELSE body

\* the number the digits stand for, with the sign of the numeral
Signed(body, digits) ==
    IF ~IsDigits(digits) THEN Raises(ValueError)
    ELSE Returns(IF startswith(body, "-") THEN 0 - Decimal(digits) ELSE Decimal(digits))

IntOf(body) == Signed(body, Unsigned(body))

\* int(text): surrounding whitespace and a sign are accepted
int(text) == IntOf(strip(text))

\* the number of a numeral split at the point: a whole part and a fraction of zeros
FloatOfParts(body, parts) ==
    IF Len(parts) > 2 \/ ~IsDigits((IF Len(parts) = 2 THEN parts[2] ELSE "") \o "0")
       \/ Decimal((IF Len(parts) = 2 THEN parts[2] ELSE "") \o "0") # 0
    THEN Raises(ValueError)
    ELSE Signed(body, parts[1])

FloatOf(body) == FloatOfParts(body, split(Unsigned(body), ".", -1))

\* float(text), for the texts of whole numbers: "2", "2.", "2.0", "-2.00"
float(text) == FloatOf(strip(text))

\* str(n) of an int, str(x) of a float
str_int(n) == ToString(n)

str_float(x) == ToString(x) \o ".0"

-----------------------------------------------------------------------------
(* Mesh, Node, Element, ElementTypes, ModelingSpaces                       *)

BCNames == {"bc1", "bc2"}

\* ModelingSpaces.TwoDimensional.value, ModelingSpaces.ThreeDimensional.value
TwoDimensional == 2

ThreeDimensional == 3

\* OneDimensional is ModelingSpaces(1); it numbers the axes a mesh spans
ModelingSpaces == {1, TwoDimensional, ThreeDimensional}

\* an iterable that can be iterated again (a tuple, a list), and one whose items are
\* gone once they were produced (a generator, an iterator)
List(items) == [items |-> items, oneShot |-> FALSE]

Generator(items) == [items |-> items, oneShot |-> TRUE]

\* for xyz in coordinates: if xyz[dim] != 0.0: count += 1; break
\* the loop takes items from position start on; next is where the iterator stands after
ScanFor(items, start, dim) ==
    LET hits == {k \in start .. Len(items) : items[k][dim + 1] # 0}
    IN IF hits = {} THEN [found |-> FALSE, next |-> Len(items) + 1]
       ELSE [found |-> TRUE, next |-> Min(hits) + 1]

\* ModelingSpaces.fromCoordinates: one loop over the iterable for each axis; an
\* iterable of the one-shot kind goes on where the loop before left it
fromCoordinates(coordinates) ==
    LET x == ScanFor(coordinates.items, 1, 0)
        y == ScanFor(coordinates.items, IF coordinates.oneShot THEN x.next ELSE 1, 1)
        z == ScanFor(coordinates.items, IF coordinates.oneShot THEN y.next ELSE 1, 2)
        count == (IF x.found THEN 1 ELSE 0) + (IF y.found THEN 1 ELSE 0)
                     + (IF z.found THEN 1 ELSE 0)
    IN IF count \notin {1, 2, 3} THEN Raises(ValueError) ELSE Returns(count)

\* ElementTypes.nodeCount
ElementTypes_nodeCount(type) ==
    CASE type = "Line2" -> 2 [] type = "Line3" -> 3
      [] type = "Plane3" -> 3 [] type = "Plane4" -> 4
      [] type = "Plane6" -> 6 [] type = "Plane8" -> 8
      [] type = "Volume4" -> 4 [] type = "Volume6" -> 6
      [] type = "Volume8" -> 8 [] type = "Volume10" -> 10
      [] type = "Volume15" -> 15 [] type = "Volume20" -> 20

\* ElementTypes.modelingSpace
ElementTypes_modelingSpace(type) ==
    CASE type \in {"Line2", "Line3"} -> 1
      [] type \in {"Plane3", "Plane4", "Plane6", "Plane8"} -> TwoDimensional
      [] type \in {"Volume4", "Volume6", "Volume8", "Volume10", "Volume15", "Volume20"} ->
             ThreeDimensional

\* A new node or element: the DOF tuples are assigned later, by the MDB
Node(index, x, y, z) ==
    [index |-> index, coordinates |-> <<x, y, z>>,
     activeLocalDOFs |-> UnsetDOFs, activeGlobalDOFs |-> UnsetDOFs,
     inactiveLocalDOFs |-> UnsetDOFs, inactiveGlobalDOFs |-> UnsetDOFs]

Element(index, type, nodeIndices) ==
    [index |-> index, type |-> type, nodeIndices |-> nodeIndices,
     nodes |-> UnsetNodes, material |-> Unset, section |-> Unset,
     activeLocalDOFs |-> UnsetDOFs, activeGlobalDOFs |-> UnsetDOFs,
     inactiveLocalDOFs |-> UnsetDOFs, inactiveGlobalDOFs |-> UnsetDOFs]

\* Element.__init__ raises ValueError: the type requires another number of nodes
Element_raises(type, nodeIndices) == Len(nodeIndices) # ElementTypes_nodeCount(type)

FilterElements_all(elements, modelingSpace) == elements

\* the elements whose type resides in the modeling space, in input order
FilterElements(elements, modelingSpace) ==
    LET Resides(element) == ElementTypes_modelingSpace(element[1]) = modelingSpace
    IN SelectSeq(elements, Resides)

\* nodeToElementsMap[nodeIndex]: the index of an element is appended once for every
\* position of its connectivity that holds nodeIndex, elements in order
NodeToElements(elements, nodeIndex) ==
    LET Is(index) == index = nodeIndex
    IN Flatten([e \in 1 .. Len(elements) |->
                   [k \in 1 .. Len(SelectSeq(elements[e].nodeIndices, Is)) |->
                       elements[e].index]])

\* Mesh.__init__: nodes is the tuple of the coordinates (x, y, z), elements the tuple of
\* the pairs (type, nodeIndices); the mesh, or the exception the constructor raises
Mesh(nodes, elements) ==
    LET nodeCount == Len(nodes)
        built == [k \in 1 .. nodeCount |-> Node(k - 1, nodes[k][1], nodes[k][2], nodes[k][3])]
        space == fromCoordinates(Generator([k \in 1 .. nodeCount |-> built[k].coordinates]))
    IN IF nodeCount = 0 THEN Raises(ValueError)
       ELSE IF space.raised # None THEN space
       ELSE IF space.value \notin {TwoDimensional, ThreeDimensional} THEN Raises(ValueError)
       ELSE LET kept == FilterElements(elements, space.value)
                created == [k \in 1 .. Len(kept) |-> Element(k - 1, kept[k][1], kept[k][2])]
            IN IF \E k \in 1 .. Len(kept) : Element_raises(kept[k][1], kept[k][2])
               THEN Raises(ValueError)
               ELSE IF Len(kept) = 0 THEN Raises(ValueError)
               ELSE IF \E k \in 1 .. Len(kept) : \E i \in Elems(kept[k][2]) :
                           ~(0 <= i /\ i < nodeCount)
               THEN Raises(ValueError)
               ELSE IF \E n \in Range0(nodeCount) : NodeToElements(created, n) = <<>>
               THEN Raises(ValueError)
               ELSE Returns([modelingSpace |-> space.value,
                             nodeCount |-> nodeCount,
                             elementCount |-> Len(created),
                             nodes |-> built,
                             elements |-> created,
                             nodeToElementsMap |->
                                 [k \in 1 .. nodeCount |-> NodeToElements(created, k - 1)],
                             activeDOFCount |-> UnsetCount,
                             inactiveDOFCount |-> UnsetCount])

-----------------------------------------------------------------------------
(* ODB: the output database.  A file is the sequence of its lines (each    *)
(* line without its newline); a position in a file (seek, tell) is the     *)
(* number of lines before it.  The file system maps a path to the file     *)
(* there, or to Absent                                                     *)

Absent == [absent |-> TRUE]

File(lines) == [lines |-> lines]

\* os.path.isfile(path)
isfile(files, path) == files[path] # Absent

\* os.remove(path)
remove(files, path) ==
    IF isfile(files, path) THEN [fs |-> [files EXCEPT ![path] = Absent], raised |-> None]
    ELSE [fs |-> files, raised |-> Some(FileNotFoundError)]

\* the lines of a text that ends with a newline
Lines(text) ==
    LET parts == split(text, "\n", -1)
    IN SubSeq(parts, 1, Len(parts) - 1)

\* file.readline() at a position: the line with its newline, '' at the end of the file
readline(lines, pointer) ==
    IF pointer < Len(lines) THEN lines[pointer + 1] \o "\n" ELSE ""

\* tuple(results), where the first item that raises ends the iteration
Collect(results) ==
    LET failed == {k \in 1 .. Len(results) : results[k].raised # None}
    IN IF failed = {} THEN Returns([k \in 1 .. Len(results) |-> results[k].value])
       ELSE results[Min(failed)]

\* frame = int(file.readline()); d = self._linePointers[frame]
\* the position in the list of the dict a $FRAME line selects; a negative index counts
\* from the end of the list
ListPosition(frame, frameCount) ==
    IF frame.raised # None THEN frame
    ELSE IF frame.value >= frameCount \/ frame.value < 0 - frameCount
    THEN Raises(IndexError)
    ELSE Returns(IF frame.value < 0 THEN frame.value + frameCount ELSE frame.value)

FrameOf(line, frameCount) == ListPosition(int(line), frameCount)

\* command = line.split(" ", maxsplit=1)[0]
Command(line) == split(line, " ", 1)[1]

\* d[key] = value: a new key goes to the end of the dict
Put(dict, key, value) ==
    IF key \in Keys(dict)
    THEN [dict EXCEPT ![CHOOSE k \in 1 .. Len(dict) : dict[k][1] = key] = <<key, value>>]
    ELSE Append(dict, <<key, value>>)

\* one turn of the second loop of ODB.__init__, for the line at position i: state
\* holds self._linePointers, the position in it of the dict d (or None) and the
\* exception that ended the loop.  file.tell() after the line at position i is i.
\* The line a $FRAME line consumes is no command line when int() accepts it
IndexLine(lines, i, state) ==
    LET line == strip(lines[i])
        frame == FrameOf(readline(lines, i), Len(state.pointers))
    IN IF state.raised # None \/ ~startswith(lines[i], "$") THEN state
       ELSE IF line = "$FRAME"
       THEN IF frame.raised # None THEN [state EXCEPT !.raised = frame.raised]
            ELSE [state EXCEPT !.d = Some(frame.value)]
       ELSE IF line = "$END_FRAME" THEN [state EXCEPT !.d = None]
       ELSE IF state.d = None THEN state
       ELSE [state EXCEPT !.pointers[state.d[1] + 1] = Put(@, Command(line), <<line, i>>)]

\* the turns of the loop for the lines lo .. hi, in order (the range is halved to keep
\* the evaluation shallow)
RECURSIVE IndexLines(_, _, _, _)
IndexLines(lines, lo, hi, state) ==
    IF lo > hi THEN state
    ELSE IF lo = hi THEN IndexLine(lines, lo, state)
    ELSE LET first == IndexLines(lines, lo, (lo + hi) \div 2, state)
         IN IF first.raised # None THEN first
            ELSE IndexLines(lines, (lo + hi) \div 2 + 1, hi, first)

\* self._linePointers after the second loop of ODB.__init__
linePointers(lines, frameCount) ==
    IndexLines(lines, 1, Len(lines),
               [pointers |-> [f \in 1 .. frameCount |-> <<>>], d |-> None, raised |-> None])

CountFrames_prefix(lines) ==
    Cardinality({i \in 1 .. Len(lines) : startswith(lines[i], "$FRAME")})

\* the first loop of ODB.__init__: the lines with line.strip() == "$FRAME"
CountFrames(lines) == Cardinality({i \in 1 .. Len(lines) : strip(lines[i]) = "$FRAME"})

\* ODB.__init__: the file system after the call, and the new object or the exception
ODB(files, filePath, mode, replace) ==
    LET removed == IF replace /\ isfile(files, filePath) /\ mode # "read"
                   THEN remove(files, filePath).fs ELSE files
        created == IF mode = "write" /\ ~isfile(removed, filePath)
                   THEN [removed EXCEPT ![filePath] = File(<<>>)] ELSE removed
        new == [filePath |-> filePath,
                mode |-> IF mode = "write" THEN "a" ELSE "r",
                frameCount |-> 0,
                currentFrame |-> 0 - 1,
                linePointers |-> <<>>]
    IN IF replace /\ isfile(files, filePath) /\ mode = "read"
       THEN [fs |-> files, raised |-> Some(RuntimeError)]
       ELSE IF mode = "read" /\ ~isfile(created, filePath)
       THEN [fs |-> created, raised |-> Some(ValueError)]
       ELSE IF mode # "read"
       THEN [fs |-> created, raised |-> None, odb |-> new]
       ELSE LET lines == created[filePath].lines
                frameCount == CountFrames(lines)
                index == linePointers(lines, frameCount)
            IN IF frameCount = 0
               THEN [fs |-> created, raised |-> Some(MissingFrameError)]
               ELSE IF index.raised # None
               THEN [fs |-> created, raised |-> index.raised]
               ELSE [fs |-> created, raised |-> None,
                     odb |-> [new EXCEPT !.frameCount = frameCount,
                                         !.currentFrame = frameCount - 1,
                                         !.linePointers = index.pointers]]

\* Node.x, Node.y, Node.z
Node_x(node) == At(node.coordinates, 0)

Node_y(node) == At(node.coordinates, 1)

Node_z(node) == At(node.coordinates, 2)

UnsupportedOperation == [raised |-> "UnsupportedOperation"]

\* the texts writeNextFrame writes, one for each file.write in turn
FrameWrites(frame, description, meshArg, nodeOutput, globalOutput) ==
    << "$FRAME\n" \o str_int(frame) \o "\n\n",
       "$DESCRIPTION\n" \o description \o "\n\n",
       "$NODES " \o str_int(meshArg.nodeCount) \o "\n" >>
        \o [k \in 1 .. Len(meshArg.nodes) |->
               str_float(Node_x(meshArg.nodes[k])) \o ", "
                   \o str_float(Node_y(meshArg.nodes[k])) \o ", "
                   \o str_float(Node_z(meshArg.nodes[k])) \o "\n"]
        \o << "\n", "$ELEMENTS " \o str_int(meshArg.elementCount) \o "\n" >>
        \o [k \in 1 .. Len(meshArg.elements) |->
               meshArg.elements[k].type \o ", "
                   \o join(", ", [i \in 1 .. Len(meshArg.elements[k].nodeIndices) |->
                          str_int(meshArg.elements[k].nodeIndices[i])])
                   \o "\n"]
        \o << "\n", "$NODE_OUTPUT_TITLES " \o str_int(Len(nodeOutput)) \o "\n" >>
        \o [k \in 1 .. Len(nodeOutput) |-> nodeOutput[k][1] \o "\n"]
        \o << "\n",
              "$NODE_OUTPUT_VALUES "
                  \o str_int(IF Len(nodeOutput) > 0 THEN meshArg.nodeCount ELSE 0) \o "\n" >>
        \* for row in zip(*nodeOutput.values()): the rows end with the shortest of the values
        \o (IF nodeOutput = <<>> THEN <<>>
            ELSE [r \in 1 .. Min({Len(nodeOutput[k][2]) : k \in 1 .. Len(nodeOutput)}) |->
                     join(", ", [k \in 1 .. Len(nodeOutput) |-> str_float(nodeOutput[k][2][r])])
                         \o "\n"])
        \o << "\n", "$GLOBAL_OUTPUT_TITLES " \o str_int(Len(globalOutput)) \o "\n" >>
        \o [k \in 1 .. Len(globalOutput) |-> globalOutput[k][1] \o "\n"]
        \o << "\n", "$GLOBAL_OUTPUT_VALUES " \o str_int(Len(globalOutput)) \o "\n" >>
        \o [k \in 1 .. Len(globalOutput) |-> str_float(globalOutput[k][2]) \o "\n"]
        \o << "\n", "$END_FRAME\n\n" >>

\* open(self._filePath, "a"), then the writes: the texts are appended, to a new file
\* when there is none; every text ends with a newline
AppendWrites(files, path, writes) ==
    [files EXCEPT ![path] =
        File((IF isfile(files, path) THEN files[path].lines ELSE <<>>)
                 \o Flatten([k \in 1 .. Len(writes) |-> Lines(writes[k])]))]

\* ODB.writeNextFrame: description is a str, meshArg a Mesh (mesh), nodeOutput the dict
\* title -> values, globalOutput the dict title -> value
writeNextFrame(files, self, description, meshArg, nodeOutput, globalOutput) ==
    LET next == [self EXCEPT !.frameCount = @ + 1, !.currentFrame = @ + 1]
    IN IF self.mode = "r"
       THEN [fs |-> files, odb |-> next,
             raised |-> Some(IF isfile(files, self.filePath) THEN UnsupportedOperation
                             ELSE FileNotFoundError)]
       ELSE [fs |-> AppendWrites(files, self.filePath,
                        FrameWrites(next.currentFrame, description, meshArg, nodeOutput,
                                    globalOutput)),
             odb |-> next,
             raised |-> None]

\* self._linePointers[self._currentFrame][command]
Pointer(self, command) ==
    LET count == Len(self.linePointers)
        frame == IF self.currentFrame < 0 THEN self.currentFrame + count
                 ELSE self.currentFrame
    IN IF frame < 0 \/ frame >= count THEN Raises(IndexError)
       ELSE IF command \notin Keys(At(self.linePointers, frame)) THEN Raises(KeyError)
       ELSE Returns(Get(At(self.linePointers, frame), command))

\* int(line.split(" ")[1])
Second(parts) == IF Len(parts) < 2 THEN Raises(IndexError) ELSE int(parts[2])

HeaderCount(line) == Second(split(line, " ", -1))

\* the lines a getter reads: open(self._filePath, "r"), seek(pointer), count readlines
ReadCount(files, self, pointer, count) ==
    IF count.raised # None THEN count
    ELSE IF ~isfile(files, self.filePath) THEN Raises(FileNotFoundError)
    ELSE Returns([k \in 1 .. count.value |->
             readline(files[self.filePath].lines, pointer + k - 1)])

ReadFrom(files, self, header) ==
    IF header.raised # None THEN header
    ELSE ReadCount(files, self, header.value[2], HeaderCount(header.value[1]))

ReadLines(files, self, command) == ReadFrom(files, self, Pointer(self, command))

\* ODB.getDescription
getDescription(files, self) ==
    LET header == Pointer(self, "$DESCRIPTION")
    IN IF header.raised # None THEN header
       ELSE IF ~isfile(files, self.filePath) THEN Raises(FileNotFoundError)
       ELSE Returns(strip(readline(files[self.filePath].lines, header.value[2])))

\* coordinates = [float(x) for x in line.split(",")]; (coordinates[0], [1], [2])
FirstThree(coordinates) ==
    IF coordinates.raised # None THEN coordinates
    ELSE IF Len(coordinates.value) < 3 THEN Raises(IndexError)
    ELSE Returns(SubSeq(coordinates.value, 1, 3))

Floats(parts) == Collect([k \in 1 .. Len(parts) |-> float(parts[k])])

ParseNode(line) == FirstThree(Floats(split(line, ",", -1)))

\* ODB.getNodes: the items the generator yields, each a value or the exception that
\* ends the iteration
NodesOf(lines) ==
    IF lines.raised # None THEN <<lines>>
    ELSE [k \in 1 .. Len(lines.value) |-> ParseNode(lines.value[k])]

getNodes(files, self) == NodesOf(ReadLines(files, self, "$NODES"))

ElementTypeNames ==
    {"Line2", "Line3", "Plane3", "Plane4", "Plane6", "Plane8",
     "Volume4", "Volume6", "Volume8", "Volume10", "Volume15", "Volume20"}

\* type, connectivity = line.split(",", maxsplit=1)
\* ElementTypes[type], tuple(int(x) for x in connectivity.split(","))
Ints(indices) == Collect([k \in 1 .. Len(indices) |-> int(indices[k])])

TypeAnd(type, connectivity) ==
    IF type \notin ElementTypeNames THEN Raises(KeyError)
    ELSE IF connectivity.raised # None THEN connectivity
    ELSE Returns(<<type, connectivity.value>>)

Unpack(parts) ==
    IF Len(parts) # 2 THEN Raises(ValueError)
    ELSE TypeAnd(parts[1], Ints(split(parts[2], ",", -1)))

ParseElement(line) == Unpack(split(line, ",", 1))

\* ODB.getElements: the items the generator yields
ElementsOf(lines) ==
    IF lines.raised # None THEN <<lines>>
    ELSE [k \in 1 .. Len(lines.value) |-> ParseElement(lines.value[k])]

getElements(files, self) == ElementsOf(ReadLines(files, self, "$ELEMENTS"))

\* ODB.getNodeOutputTitles, ODB.getGlobalOutputTitles: the tuple of the titles
TitlesOf(lines) ==
    IF lines.raised # None THEN lines
    ELSE Returns([k \in 1 .. Len(lines.value) |-> strip(lines.value[k])])

getTitles(files, self, command) == TitlesOf(ReadLines(files, self, command))

getNodeOutputTitles(files, self) == getTitles(files, self, "$NODE_OUTPUT_TITLES")

getGlobalOutputTitles(files, self) == getTitles(files, self, "$GLOBAL_OUTPUT_TITLES")

IndexOf_first(titles, title) ==
    IF title \notin Elems(titles) THEN Raises(ValueError) ELSE Returns(0)

\* [*titles].index(title)
IndexOf(titles, title) ==
    IF title \notin Elems(titles) THEN Raises(ValueError)
    ELSE Returns(Min({k \in 1 .. Len(titles) : titles[k] = title}) - 1)

\* ODB.getNodeOutputValues: the items the generator yields
\* float(file.readline().split(",", maxsplit=index + 1)[index])
FloatAt(parts, index) ==
    IF Len(parts) <= index THEN Raises(IndexError) ELSE float(At(parts, index))

ColumnOf(index, lines) ==
    IF index.raised # None THEN <<index>>
    ELSE IF lines.raised # None THEN <<lines>>
    ELSE [k \in 1 .. Len(lines.value) |->
             FloatAt(split(lines.value[k], ",", index.value + 1), index.value)]

NodeOutputValuesOf(files, self, titles, title) ==
    IF titles.raised # None THEN <<titles>>
    ELSE ColumnOf(IndexOf(titles.value, title),
                  ReadLines(files, self, "$NODE_OUTPUT_VALUES"))

getNodeOutputValues(files, self, title) ==
    NodeOutputValuesOf(files, self, getNodeOutputTitles(files, self), title)

\* float("nan")
nan == [nan |-> TRUE]

\* ODB.getGlobalOutputValues
RowOf(index, lines) ==
    IF index.raised # None THEN index
    ELSE IF lines.raised # None THEN lines
    ELSE IF index.value >= Len(lines.value) THEN Returns(nan)
    ELSE float(At(lines.value, index.value))

GlobalOutputValuesOf(files, self, titles, title) ==
    IF titles.raised # None THEN titles
    ELSE RowOf(IndexOf(titles.value, title),
               ReadLines(files, self, "$GLOBAL_OUTPUT_VALUES"))

getGlobalOutputValues(files, self, title) ==
    GlobalOutputValuesOf(files, self, getGlobalOutputTitles(files, self), title)

\* ODB.goToFirstFrame, goToPreviousFrame, goToNextFrame, goToLastFrame
goToFirstFrame(self) == [self EXCEPT !.currentFrame = 0]

goToPreviousFrame(self) ==
    IF self.currentFrame = 0 THEN self ELSE [self EXCEPT !.currentFrame = @ - 1]

goToNextFrame_unclamped(self) == [self EXCEPT !.currentFrame = @ + 1]

goToNextFrame(self) ==
    IF self.currentFrame = self.frameCount - 1 THEN self
    ELSE [self EXCEPT !.currentFrame = @ + 1]

goToLastFrame(self) == [self EXCEPT !.currentFrame = self.frameCount - 1]

goToFrame_ignored(self, frame) ==
    IF frame < 0 \/ frame >= self.frameCount
    THEN [odb |-> self, raised |-> Some(ValueError)]
    ELSE [odb |-> self, raised |-> None]

\* ODB.goToFrame
goToFrame(self, frame) ==
    IF frame < 0 \/ frame >= self.frameCount
    THEN [odb |-> self, raised |-> Some(ValueError)]
    ELSE [odb |-> [self EXCEPT !.currentFrame = frame], raised |-> None]

\* Mesh(nodes=old.getNodes(), elements=old.getElements()): the constructor takes the
\* items of the two generators in its own order, the nodes first, then one element at
\* a time
MeshOf(nodeItems, elementItems) ==
    LET nodes == Collect(nodeItems)
        space == fromCoordinates(Generator(nodes.value))
        Item(k) ==
            IF elementItems[k].raised # None THEN elementItems[k]
            ELSE IF ElementTypes_modelingSpace(elementItems[k].value[1]) = space.value
                    /\ Element_raises(elementItems[k].value[1], elementItems[k].value[2])
            THEN Raises(ValueError)
            ELSE elementItems[k]
        elements == Collect([k \in 1 .. Len(elementItems) |-> Item(k)])
    IN IF nodes.raised # None THEN nodes
       ELSE IF Len(nodes.value) = 0 \/ space.raised # None
               \/ space.value \notin {TwoDimensional, ThreeDimensional}
       THEN Mesh(nodes.value, <<>>)
       ELSE IF elements.raised # None THEN elements
       ELSE Mesh(nodes.value, elements.value)

\* {title: value(title) for title in titles}: a repeated title keeps its first place
\* and its last value
RECURSIVE DictOf(_, _)
DictOf(titles, values) ==
    IF titles = <<>> THEN <<>>
    ELSE Put(DictOf(SubSeq(titles, 1, Len(titles) - 1), SubSeq(values, 1, Len(values) - 1)),
             titles[Len(titles)], values[Len(values)])

\* zip(*generators): the number of rows zip yields before it stops, and the exception
\* that stops it, if one does: in each row the generators are asked in turn, the first
\* that is exhausted or raises ends the iteration
Zip(generators) ==
    LET Stops(r) == {k \in 1 .. Len(generators) :
                        Len(generators[k]) < r \/ generators[k][r].raised # None}
        longest == Max({0} \cup {Len(generators[k]) : k \in 1 .. Len(generators)})
        last == IF generators = <<>> THEN 1
                ELSE Min({r \in 1 .. longest + 1 : Stops(r) # {}})
        stopper == generators[Min(Stops(last))]
    IN IF generators = <<>> THEN [rows |-> 0, raised |-> None]
       ELSE [rows |-> last - 1,
             raised |-> IF Len(stopper) < last THEN None ELSE stopper[last].raised]

\* description=old.getDescription() if not descriptions else descriptions[count]
mergeDescription(state, self, descriptions) ==
    IF descriptions = <<>> THEN getDescription(state.fs, self)
    ELSE IF state.count < Len(descriptions) THEN Returns(At(descriptions, state.count))
    ELSE Raises(IndexError)

\* {title: old.getGlobalOutputValues(title) for title in old.getGlobalOutputTitles()}:
\* the values, computed as the dict is built
mergeGlobalValues(files, self, globalTitles) ==
    Collect([k \in 1 .. Len(globalTitles) |->
                getGlobalOutputValues(files, self, globalTitles[k])])

\* {title: old.getNodeOutputValues(title) for title in old.getNodeOutputTitles()}: the
\* generators of the node output, run by zip inside writeNextFrame
mergeGenerators(files, self, nodeTitles) ==
    DictOf(nodeTitles,
           [k \in 1 .. Len(nodeTitles) |-> getNodeOutputValues(files, self, nodeTitles[k])])

\* the node output the rows of zip are taken from
mergeNodeOutput(generators, rows) ==
    [k \in 1 .. Len(generators) |->
        <<generators[k][1], [r \in 1 .. rows |-> generators[k][2][r].value]>>]

\* the writes before the row that raises: 9 + nodeCount + elementCount + the titles
\* come before the rows
mergePartial(frame, description, meshArg, nodeOutput, globalOutput, rows) ==
    SubSeq(FrameWrites(frame, description, meshArg, nodeOutput, globalOutput),
           1, 9 + meshArg.nodeCount + meshArg.elementCount + Len(nodeOutput) + rows)

\* new.writeNextFrame(...), ended by the exception of a generator if zip met one
mergeWrite(state, description, meshArg, nodeOutput, globalOutput, zipped) ==
    IF zipped.raised # None
    THEN [state EXCEPT
             !.fs = AppendWrites(state.fs, state.new.filePath,
                        mergePartial(state.new.currentFrame + 1, description, meshArg,
                                     nodeOutput, globalOutput, zipped.rows)),
             !.new = writeNextFrame(state.fs, state.new, description, meshArg, nodeOutput,
                                    globalOutput).odb,
             !.raised = zipped.raised]
    ELSE [state EXCEPT
             !.fs = writeNextFrame(state.fs, state.new, description, meshArg, nodeOutput,
                                   globalOutput).fs,
             !.new = writeNextFrame(state.fs, state.new, description, meshArg, nodeOutput,
                                    globalOutput).odb,
             !.count = @ + 1]

mergeZipped(state, description, meshArg, generators, globalOutput, zipped) ==
    mergeWrite(state, description, meshArg, mergeNodeOutput(generators, zipped.rows),
               globalOutput, zipped)

mergeOutputs(state, description, meshArg, generators, globalTitles, globalValues) ==
    IF globalValues.raised # None THEN [state EXCEPT !.raised = globalValues.raised]
    ELSE mergeZipped(state, description, meshArg, generators,
                     DictOf(globalTitles, globalValues.value), Zip(Values(generators)))

\* the arguments of new.writeNextFrame, evaluated in the order they are written
mergeArguments(state, self, description, meshArg, nodeTitles, globalTitles) ==
    IF description.raised # None THEN [state EXCEPT !.raised = description.raised]
    ELSE IF meshArg.raised # None THEN [state EXCEPT !.raised = meshArg.raised]
    ELSE IF nodeTitles.raised # None THEN [state EXCEPT !.raised = nodeTitles.raised]
    ELSE IF globalTitles.raised # None THEN [state EXCEPT !.raised = globalTitles.raised]
    ELSE mergeOutputs(state, description.value, meshArg.value,
                      mergeGenerators(state.fs, self, nodeTitles.value),
                      globalTitles.value,
                      mergeGlobalValues(state.fs, self, globalTitles.value))

mergeWent(state, went, descriptions) ==
    IF went.raised # None THEN [state EXCEPT !.raised = went.raised]
    ELSE mergeArguments(state, went.odb,
                        mergeDescription(state, went.odb, descriptions),
                        MeshOf(getNodes(state.fs, went.odb), getElements(state.fs, went.odb)),
                        getNodeOutputTitles(state.fs, went.odb),
                        getGlobalOutputTitles(state.fs, went.odb))

\* one turn of the inner loop of ODB.merge: state holds the file system, the ODB new,
\* count and the exception that ended the loops
mergeFrame(state, old, frame, descriptions) ==
    mergeWent(state, goToFrame(old, frame), descriptions)

\* for frame in frames, from the k-th frame on; a turn that raises ends the loop
RECURSIVE mergeFrames(_, _, _, _, _)
mergeFrames(state, old, frames, k, descriptions) ==
    IF k > Len(frames) \/ state.raised # None THEN state
    ELSE mergeFrames(mergeFrame(state, old, frames[k], descriptions), old, frames, k + 1,
                     descriptions)

\* for oldFilePath, frames in selection, from the k-th item on
RECURSIVE mergeSources(_, _, _, _)

\* old = ODB(oldFilePath, mode="read"), then the inner loop and the next item
mergeSource(state, old, items, k, descriptions) ==
    IF old.raised # None THEN [state EXCEPT !.raised = old.raised]
    ELSE mergeSources(mergeFrames(state, old.odb, items[k][2], 1, descriptions),
                      items, k + 1, descriptions)

mergeSources(state, items, k, descriptions) ==
    IF k > Len(items) \/ state.raised # None THEN state
    ELSE mergeSource(state, ODB(state.fs, items[k][1], "read", FALSE), items, k, descriptions)

\* for oldFilePath, _ in selection: os.remove(oldFilePath), from the k-th item on
RECURSIVE removeAll(_, _, _)
removeAll(files, items, k) ==
    IF k > Len(items) THEN [fs |-> files, raised |-> None]
    ELSE LET removed == remove(files, items[k][1])
         IN IF removed.raised # None THEN removed
            ELSE removeAll(removed.fs, items, k + 1)

\* ODB.merge: selection is an iterable of (path, frames); the second loop over it finds
\* no item left when the iterable is of the one-shot kind
mergeInto(new, selection, descriptions) ==
    mergeSources([fs |-> new.fs, new |-> new.odb, count |-> 0, raised |-> None],
                 selection.items, 1, descriptions)

mergeEnd(merged, selection, deleteExisting) ==
    IF merged.raised # None THEN [fs |-> merged.fs, raised |-> merged.raised]
    ELSE IF ~deleteExisting THEN [fs |-> merged.fs, raised |-> None]
    ELSE removeAll(merged.fs, IF selection.oneShot THEN <<>> ELSE selection.items, 1)

merge(files, filePath, selection, descriptions, deleteExisting) ==
    mergeEnd(mergeInto(ODB(IF isfile(files, filePath) THEN remove(files, filePath).fs
                           ELSE files,
                           filePath, "write", FALSE),
                       selection, descriptions),
             selection, deleteExisting)

-----------------------------------------------------------------------------
(* Bounds and input domains                                                *)

\* prescribed displacements are drawn from 0 .. MaxDisp
MaxDisp == 1

Disp == 0 .. MaxDisp

\* two Plane3 elements on four nodes; two Volume4 elements on five nodes
Meshes ==
    { Mesh(<< <<0, 0, 0>>, <<1, 0, 0>>, <<0, 1, 0>>, <<1, 1, 0>> >>,
           << <<"Plane3", <<0, 1, 2>> >>, <<"Plane3", <<2, 1, 3>> >> >>).value,
      Mesh(<< <<0, 0, 0>>, <<1, 0, 0>>, <<0, 1, 0>>, <<0, 0, 1>>, <<1, 1, 1>> >>,
           << <<"Volume4", <<0, 1, 2, 3>> >>, <<"Volume4", <<4, 2, 1, 3>> >> >>).value }

\* what the script passes to writeNextFrame
Frame(description, meshArg, nodeOutput, globalOutput) ==
    [description |-> description, mesh |-> meshArg,
     nodeOutput |-> nodeOutput, globalOutput |-> globalOutput]

PlaneMesh == CHOOSE m \in Meshes : m.modelingSpace = TwoDimensional

VolumeMesh == CHOOSE m \in Meshes : m.modelingSpace = ThreeDimensional

\* the frames of a static run and a frame of a frequency run, with small results
FrameInputs ==
    { Frame("Increment 0: Time = 0.0", PlaneMesh, <<>>, <<>>),
      Frame("Increment 1: Time = 1.0", PlaneMesh,
            << <<"Displacement>Displacement in X", <<0, 1, 0 - 2, 3>> >>,
               <<"Displacement>Displacement in Y", <<0, 0, 10, 0 - 1>> >> >>,
            <<>>),
      Frame("Mode 1: Frequency = +1.000E+00", VolumeMesh,
            << <<"Displacement>Magnitude", <<0, 1, 2, 3, 12>> >> >>,
            << <<"General>Eigenvalue", 39>>, <<"General>Frequency", 1>> >>) }

\* a file an earlier run left: one frame
Stale ==
    AppendWrites([path \in {"stale"} |-> Absent], "stale",
                 FrameWrites(0, "Increment 0: Time = 0.0", VolumeMesh, <<>>, <<>>))["stale"]

\* a file that is not an output database: no $FRAME line
Frameless == File(<<"# no frames", "", "$FRAMES 1">>)

\* the node sets of the MDB: overlapping at node 1, one of them empty
InitialNodeSets ==
    << <<"A", NodeSet({1, 0})>>, <<"B", NodeSet({1, 2})>>, <<"E", NodeSet({})>> >>

-----------------------------------------------------------------------------
(* BoundaryCondition                                                       *)

BoundaryCondition_dofs_truthy(u, v, w) ==
    (IF u # None /\ u # Some(0) THEN <<0>> ELSE <<>>)
        \o (IF v # None /\ v # Some(0) THEN <<1>> ELSE <<>>)
        \o (IF w # None /\ w # Some(0) THEN <<2>> ELSE <<>>)

\* tuple(dof for dof, displacement in enumerate((u, v, w)) if displacement is not None)
BoundaryCondition_dofs(u, v, w) ==
    (IF u # None THEN <<0>> ELSE <<>>)
        \o (IF v # None THEN <<1>> ELSE <<>>)
        \o (IF w # None THEN <<2>> ELSE <<>>)

\* tuple(displacement for displacement in (u, v, w) if displacement is not None)
BoundaryCondition_displacements(u, v, w) ==
    (IF u # None THEN <<u[1]>> ELSE <<>>)
        \o (IF v # None THEN <<v[1]>> ELSE <<>>)
        \o (IF w # None THEN <<w[1]>> ELSE <<>>)

BoundaryCondition(region, u, v, w) ==
    [region |-> region, u |-> u, v |-> v, w |-> w,
     dofs |-> BoundaryCondition_dofs(u, v, w),
     displacements |-> BoundaryCondition_displacements(u, v, w)]

-----------------------------------------------------------------------------
(* MDB._buildDOFs                                                          *)

RECURSIVE MarkNodes(_, _, _)
\* for nodeIndex in self.nodeSets[region].indices: tableActive[nodeIndex][dof] = False
MarkNodes(tableActive, indices, dof) ==
    IF indices = <<>> THEN tableActive
    ELSE MarkNodes([tableActive EXCEPT ![Head(indices)][dof] = FALSE], Tail(indices), dof)

RECURSIVE MarkDOFs(_, _, _, _)
\* for dof in boundaryCondition.dofs: if 0 <= dof < n: ...
MarkDOFs(tableActive, dofs, indices, n) ==
    IF dofs = <<>> THEN tableActive
    ELSE LET dof == Head(dofs)
             marked == IF 0 <= dof /\ dof < n THEN MarkNodes(tableActive, indices, dof)
                       ELSE tableActive
         IN MarkDOFs(marked, Tail(dofs), indices, n)

RECURSIVE MarkBoundaryConditions(_, _, _, _)
\* for boundaryCondition in self.boundaryConditions.values(): ...
MarkBoundaryConditions(tableActive, bcs, sets, n) ==
    IF bcs = <<>> THEN tableActive
    ELSE LET bc == Head(bcs)
         IN MarkBoundaryConditions(MarkDOFs(tableActive, bc.dofs, Get(sets, bc.region), n),
                                   Tail(bcs), sets, n)

\* the table of active/inactive DOFs: True active, False inactive
TableActive(m, n, bcs, sets) ==
    MarkBoundaryConditions([i \in Range0(m) |-> [j \in Range0(n) |-> TRUE]], bcs, sets, n)

EnumerateStep_sharedCounter(acc, i, j, tableActive) ==
    [tableDOFs |-> [acc.tableDOFs EXCEPT ![i][j] = acc.activeDOFCount + acc.inactiveDOFCount],
     activeDOFCount |-> IF tableActive[i][j] THEN acc.activeDOFCount + 1 ELSE acc.activeDOFCount,
     inactiveDOFCount |-> IF tableActive[i][j] THEN acc.inactiveDOFCount
                          ELSE acc.inactiveDOFCount + 1]

\* the body of the enumeration loop: the next active or the next inactive id
EnumerateStep(acc, i, j, tableActive) ==
    IF tableActive[i][j]
    THEN [acc EXCEPT !.tableDOFs[i][j] = acc.activeDOFCount,
                     !.activeDOFCount = acc.activeDOFCount + 1]
    ELSE [acc EXCEPT !.tableDOFs[i][j] = acc.inactiveDOFCount,
                     !.inactiveDOFCount = acc.inactiveDOFCount + 1]

RECURSIVE EnumerateFrom(_, _, _, _, _)
\* for i in range(m): for j in range(n): ...   (k = i*n + j runs over the pairs in order)
EnumerateFrom(k, acc, tableActive, m, n) ==
    IF k = m * n THEN acc
    ELSE EnumerateFrom(k + 1, EnumerateStep(acc, k \div n, k % n, tableActive),
                       tableActive, m, n)

EnumerateDOFs(tableActive, m, n) ==
    EnumerateFrom(0,
                  [tableDOFs |-> [i \in Range0(m) |-> [j \in Range0(n) |-> 0]],
                   activeDOFCount |-> 0, inactiveDOFCount |-> 0],
                  tableActive, m, n)

EmptyLists == [activeLocalDOFs |-> <<>>, activeGlobalDOFs |-> <<>>,
               inactiveLocalDOFs |-> <<>>, inactiveGlobalDOFs |-> <<>>]

\* the if/else that appends a local and a global DOF to the active or the inactive pair
AppendDOF(lists, localDOF, globalDOF, active) ==
    IF active
    THEN [lists EXCEPT !.activeLocalDOFs = Append(@, localDOF),
                       !.activeGlobalDOFs = Append(@, globalDOF)]
    ELSE [lists EXCEPT !.inactiveLocalDOFs = Append(@, localDOF),
                       !.inactiveGlobalDOFs = Append(@, globalDOF)]

ElementLocalDOF_componentMajor(localNodeIndex, dof, n, nodeCount) ==
    dof * nodeCount + localNodeIndex

\* localDOF: int = localNodeIndex*n + dof
ElementLocalDOF(localNodeIndex, dof, n, nodeCount) == localNodeIndex * n + dof

RECURSIVE ElementListsFrom(_, _, _, _, _, _)
\* for localNodeIndex, globalNodeIndex in enumerate(element.nodeIndices): for dof in range(n)
ElementListsFrom(k, lists, nodeIndices, tableActive, tableDOFs, n) ==
    IF k = Len(nodeIndices) * n THEN lists
    ELSE LET localNodeIndex == k \div n
             dof == k % n
             globalNodeIndex == At(nodeIndices, localNodeIndex)
         IN ElementListsFrom(
                k + 1,
                AppendDOF(lists,
                          ElementLocalDOF(localNodeIndex, dof, n, Len(nodeIndices)),
                          tableDOFs[globalNodeIndex][dof],
                          tableActive[globalNodeIndex][dof]),
                nodeIndices, tableActive, tableDOFs, n)

NodeAppendDOF_activeOnly(lists, localDOF, globalDOF, active) ==
    IF active THEN AppendDOF(lists, localDOF, globalDOF, TRUE)
    ELSE [lists EXCEPT !.inactiveGlobalDOFs = Append(@, globalDOF)]

\* the if/else of the node loop
NodeAppendDOF(lists, localDOF, globalDOF, active) ==
    AppendDOF(lists, localDOF, globalDOF, active)

RECURSIVE NodeListsFrom(_, _, _, _, _, _)
\* for node in self.mesh.nodes: for dof in range(n): localDOF = dof
NodeListsFrom(dof, lists, nodeIndex, tableActive, tableDOFs, n) ==
    IF dof = n THEN lists
    ELSE NodeListsFrom(dof + 1,
                       NodeAppendDOF(lists, dof, tableDOFs[nodeIndex][dof],
                                     tableActive[nodeIndex][dof]),
                       nodeIndex, tableActive, tableDOFs, n)

\* store results: the counts on the mesh, the four tuples on every element and node
WithLists(object, lists) ==
    [object EXCEPT !.activeLocalDOFs = lists.activeLocalDOFs,
                   !.activeGlobalDOFs = lists.activeGlobalDOFs,
                   !.inactiveLocalDOFs = lists.inactiveLocalDOFs,
                   !.inactiveGlobalDOFs = lists.inactiveGlobalDOFs]

\* MDB._buildDOFs: the mesh after the call
buildDOFs(msh, bcs, sets) ==
    LET m == msh.nodeCount
        n == msh.modelingSpace
        tableActive == TableActive(m, n, Values(bcs), sets)
        enum == EnumerateDOFs(tableActive, m, n)
        tableDOFs == enum.tableDOFs
    IN [msh EXCEPT
           !.activeDOFCount = enum.activeDOFCount,
           !.inactiveDOFCount = enum.inactiveDOFCount,
           !.elements = [k \in 1 .. msh.elementCount |->
               WithLists(msh.elements[k],
                         ElementListsFrom(0, EmptyLists, msh.elements[k].nodeIndices,
                                          tableActive, tableDOFs, n))],
           !.nodes = [k \in 1 .. m |->
               WithLists(msh.nodes[k],
                         NodeListsFrom(0, EmptyLists, msh.nodes[k].index,
                                       tableActive, tableDOFs, n))]]

-----------------------------------------------------------------------------
(* assemblePrescribedDisplacementVector                                    *)

RECURSIVE Scatter(_, _, _)
\* target[indices,] = source : numpy fancy assignment, position by position
Scatter(target, indices, source) ==
    IF indices = <<>> THEN target
    ELSE Scatter([target EXCEPT ![Head(indices) + 1] = Head(source)],
                 Tail(indices), Tail(source))

\* source[indices,] : numpy fancy indexing
Gather(source, indices) == [k \in 1 .. Len(indices) |-> At(source, indices[k])]

RECURSIVE PrescribeNodes(_, _, _, _)
\* for nodeIndex in region: Ub[node.inactiveGlobalDOFs,] = U[node.inactiveLocalDOFs,]
PrescribeNodes(vec, indices, U, msh) ==
    IF indices = <<>> THEN vec
    ELSE LET node == At(msh.nodes, Head(indices))
         IN PrescribeNodes(Scatter(vec, node.inactiveGlobalDOFs,
                                   Gather(U, node.inactiveLocalDOFs)),
                           Tail(indices), U, msh)

RECURSIVE PrescribeBoundaryConditions(_, _, _, _)
\* for boundaryCondition in mdb.boundaryConditions.values(): U = zeros(3); U[dofs,] = displacements
PrescribeBoundaryConditions(vec, bcs, sets, msh) ==
    IF bcs = <<>> THEN vec
    ELSE LET bc == Head(bcs)
             U == Scatter(Zeros(3), bc.dofs, bc.displacements)
         IN PrescribeBoundaryConditions(PrescribeNodes(vec, Get(sets, bc.region), U, msh),
                                        Tail(bcs), sets, msh)

assemblePrescribedDisplacementVector(msh, bcs, sets) ==
    PrescribeBoundaryConditions(Zeros(msh.inactiveDOFCount), Values(bcs), sets, msh)

-----------------------------------------------------------------------------
(* SparseCSR: COO-type data to CSR through the MKL sparse routines         *)

RECURSIVE SumSeq(_)
SumSeq(t) == IF t = <<>> THEN 0 ELSE Head(t) + SumSeq(Tail(t))

\* the positions of the COO data that hold an entry of (row, col)
PositionsOf(h, row, col) ==
    {k \in 1 .. h.nnz : h.row_indx[k] = row /\ h.col_indx[k] = col}

RECURSIVE SumAt(_, _)
SumAt(values, positions) ==
    IF positions = {} THEN 0
    ELSE LET k == Min(positions) IN values[k] + SumAt(values, positions \ {k})

\* creates a handle for a matrix in COO format
mkl_sparse_d_create_coo(rows, cols, nnz, row_indx, col_indx, values) ==
    [rows |-> rows, cols |-> cols, nnz |-> nnz,
     row_indx |-> row_indx, col_indx |-> col_indx, values |-> values]

\* one row of the conversion: the distinct columns of the row, in the order the COO
\* data first names them, each with the sum of the values given for it
RowEntries(h, row) ==
    LET positions == {k \in 1 .. h.nnz : h.row_indx[k] = row}
        cols == {h.col_indx[k] : k \in positions}
        firsts == SortedTuple({Min({k \in positions : h.col_indx[k] = c}) : c \in cols})
    IN [cols |-> [q \in 1 .. Len(firsts) |-> h.col_indx[firsts[q]]],
        vals |-> [q \in 1 .. Len(firsts) |->
                     SumAt(h.values,
                           {k \in positions : h.col_indx[k] = h.col_indx[firsts[q]]})]]

\* converts internal matrix representation to CSR format; repeated matrix entries are
\* added in the conversion
mkl_sparse_convert_csr(h) ==
    LET entries == [i \in 1 .. h.rows |-> RowEntries(h, i - 1)]
        start == [i \in 1 .. h.rows |-> SumSeq([j \in 1 .. i - 1 |-> Len(entries[j].cols)])]
    IN [rows |-> h.rows, cols |-> h.cols,
        rows_start |-> start,
        rows_end |-> [i \in 1 .. h.rows |-> start[i] + Len(entries[i].cols)],
        col_indx |-> Flatten([i \in 1 .. h.rows |-> entries[i].cols]),
        values |-> Flatten([i \in 1 .. h.rows |-> entries[i].vals])]

mkl_sparse_order_skipped(h) == h

\* one row of the ordering: its columns in increasing order, each with its value
OrderedRow(h, i) ==
    LET cols == SubSeq(h.col_indx, h.rows_start[i] + 1, h.rows_end[i])
        vals == SubSeq(h.values, h.rows_start[i] + 1, h.rows_end[i])
        sorted == SortedTuple(Elems(cols))
    IN [cols |-> sorted,
        vals |-> [q \in 1 .. Len(sorted) |->
                     vals[CHOOSE p \in 1 .. Len(cols) : cols[p] = sorted[q]]]]

\* performs ordering of column indices of the matrix in CSR format
mkl_sparse_order(h) ==
    LET ordered == [i \in 1 .. h.rows |-> OrderedRow(h, i)]
    IN [h EXCEPT !.col_indx = Flatten([i \in 1 .. h.rows |-> ordered[i].cols]),
                 !.values = Flatten([i \in 1 .. h.rows |-> ordered[i].vals])]


\* rowIndex = zeros(rowCount + 1); rowIndex[0] = pointerB[0]; rowIndex[1:] = pointerE[:]
SparseCSR_rowIndex(pointerB, pointerE, rowCount) ==
    [p \in 1 .. rowCount + 1 |-> IF p = 1 THEN pointerB[1] ELSE pointerE[p - 1]]

\* SparseCSR.__init__
SparseCSR(rowCount, columnCount, rowIndices, columnIndices, values) ==
    IF Len(values) # Len(rowIndices) \/ Len(values) # Len(columnIndices)
    THEN ValueError   \* array size mismatch
    ELSE IF Len(columnIndices) = 0
    THEN ValueError   \* np.min of a zero-size array
    ELSE IF \E k \in 1 .. Len(columnIndices) :
                columnIndices[k] < 0 \/ columnIndices[k] >= columnCount
    THEN ValueError   \* index out of bounds
    ELSE IF \E k \in 1 .. Len(rowIndices) : rowIndices[k] < 0 \/ rowIndices[k] >= rowCount
    THEN ValueError   \* index out of bounds
    ELSE LET cooHandle == mkl_sparse_d_create_coo(rowCount, columnCount, Len(values),
                                                  rowIndices, columnIndices, values)
             csrHandle == mkl_sparse_order(mkl_sparse_convert_csr(cooHandle))
             pointerB == csrHandle.rows_start
             pointerE == csrHandle.rows_end
             columns == SubSeq(csrHandle.col_indx, 1, pointerE[csrHandle.rows])
         IN [rowCount |-> csrHandle.rows,
             columnCount |-> csrHandle.cols,
             pointerB |-> pointerB,
             pointerE |-> pointerE,
             rowIndex |-> SparseCSR_rowIndex(pointerB, pointerE, csrHandle.rows),
             columns |-> columns,
             values |-> SubSeq(csrHandle.values, 1, Len(columns)),
             nonZeroCount |-> Len(columns)]

-----------------------------------------------------------------------------
(* numpy arrays of two dimensions, as far as assembleMatrix uses them      *)

Array2(rows, cols, Entry(_, _)) ==
    [rows |-> rows, cols |-> cols,
     at |-> [p \in 1 .. rows, q \in 1 .. cols |-> Entry(p, q)]]

\* np.meshgrid(x, y): two arrays of shape (len(y), len(x)), X[i, j] = x[j], Y[i, j] = y[i]
meshgrid(x, y) ==
    LET EntryX(p, q) == x[q]
        EntryY(p, q) == y[p]
    IN <<Array2(Len(y), Len(x), EntryX), Array2(Len(y), Len(x), EntryY)>>

T_forgotten(a) == [rows |-> a.cols, cols |-> a.rows,
                   at |-> [p \in 1 .. a.cols, q \in 1 .. a.rows |->
                              a.at[(((p - 1) * a.rows + (q - 1)) \div a.cols) + 1,
                                   (((p - 1) * a.rows + (q - 1)) % a.cols) + 1]]]

\* a.T
T(a) == [rows |-> a.cols, cols |-> a.rows,
         at |-> [p \in 1 .. a.cols, q \in 1 .. a.rows |-> a.at[q, p]]]

\* a.flat: the entries in row-major order
flat(a) ==
    [k \in 1 .. a.rows * a.cols |-> a.at[((k - 1) \div a.cols) + 1, ((k - 1) % a.cols) + 1]]

\* A[np.ix_(rowDOFs, colDOFs)]
ix(A, rowDOFs, colDOFs) ==
    LET Entry(p, q) == A[rowDOFs[p]][colDOFs[q]]
    IN Array2(Len(rowDOFs), Len(colDOFs), Entry)

\* array[i:j] = source
SliceAssign(array, i, j, source) ==
    [p \in 1 .. Len(array) |-> IF i < p /\ p <= j THEN source[p - i] ELSE array[p]]

-----------------------------------------------------------------------------
(* assembleMatrix                                                          *)

\* the dense matrix of an element: every entry of every element has its own value
ElementMatrix(e, dofCount) ==
    [i \in Range0(dofCount) |-> [j \in Range0(dofCount) |->
        1 + j + dofCount * (i + dofCount * e)]]

ElementMatrices(msh) ==
    [k \in 1 .. msh.elementCount |->
        ElementMatrix(msh.elements[k].index,
                      Len(msh.elements[k].nodeIndices) * msh.modelingSpace)]

\* size_xy += len(rowLocalDOFs)*len(colLocalDOFs), over the elements
RECURSIVE BlockSize(_, _, _)
BlockSize(elements, rowField, colField) ==
    IF elements = <<>> THEN 0
    ELSE Len(Head(elements)[rowField]) * Len(Head(elements)[colField])
             + BlockSize(Tail(elements), rowField, colField)

RECURSIVE FillBlock(_, _, _, _, _, _)
\* the fill loop for one block: acc holds the arrays, the running offset and the slots
FillBlock(acc, elements, matrices, rowPrefix, colPrefix, k) ==
    IF k > Len(elements) THEN acc
    ELSE LET element == elements[k]
             A == matrices[k]
             rlDOFs == element[rowPrefix \o "LocalDOFs"]
             rgDOFs == element[rowPrefix \o "GlobalDOFs"]
             clDOFs == element[colPrefix \o "LocalDOFs"]
             cgDOFs == element[colPrefix \o "GlobalDOFs"]
             i == acc.i
             j == i + Len(rlDOFs) * Len(clDOFs)
             rc == meshgrid(rgDOFs, cgDOFs)
             v == ix(A, rlDOFs, clDOFs)
         IN FillBlock([rows |-> SliceAssign(acc.rows, i, j, flat(T(rc[1]))),
                       cols |-> SliceAssign(acc.cols, i, j, flat(T(rc[2]))),
                       vals |-> SliceAssign(acc.vals, i, j, flat(v)),
                       i |-> j,
                       slots |-> Append(acc.slots, <<i, j>>)],
                      elements, matrices, rowPrefix, colPrefix, k + 1)

\* one block of assembleMatrix: sizes, allocation, fill
AssembleBlock(elements, matrices, rowPrefix, colPrefix) ==
    LET size == BlockSize(elements, rowPrefix \o "LocalDOFs", colPrefix \o "LocalDOFs")
    IN FillBlock([rows |-> Zeros(size), cols |-> Zeros(size), vals |-> Zeros(size),
                  i |-> 0, slots |-> <<>>],
                 elements, matrices, rowPrefix, colPrefix, 1)

\* assembleMatrix: the COO arrays of the four blocks and the four SparseCSR objects, or
\* the exception a SparseCSR constructor raises
assembleMatrix(elements, matrices, activeDOFCount, inactiveDOFCount) ==
    LET aa == AssembleBlock(elements, matrices, "active", "active")
        ab == AssembleBlock(elements, matrices, "active", "inactive")
        ba == AssembleBlock(elements, matrices, "inactive", "active")
        bb == AssembleBlock(elements, matrices, "inactive", "inactive")
        Maa == SparseCSR(activeDOFCount, activeDOFCount, aa.rows, aa.cols, aa.vals)
        Mab == SparseCSR(activeDOFCount, inactiveDOFCount, ab.rows, ab.cols, ab.vals)
        Mba == SparseCSR(inactiveDOFCount, activeDOFCount, ba.rows, ba.cols, ba.vals)
        Mbb == SparseCSR(inactiveDOFCount, inactiveDOFCount, bb.rows, bb.cols, bb.vals)
    IN [aa |-> aa, ab |-> ab, ba |-> ba, bb |-> bb,
        result |-> IF Raised(Maa) \/ Raised(Mab) \/ Raised(Mba) \/ Raised(Mbb)
                   THEN ValueError
                   ELSE [Maa |-> Maa, Mab |-> Mab, Mba |-> Mba, Mbb |-> Mbb]]

-----------------------------------------------------------------------------
(* The run: populate the MDB, then pre-process and assemble                *)

\* the state of the parts of the model a specification leaves alone
ModelEmpty ==
    /\ elementSets = <<>>
    /\ surfaceSets = <<>>
    /\ materials = <<>>
    /\ sections = <<>>
    /\ concentratedLoads = <<>>
    /\ surfaceTractions = <<>>
    /\ pressures = <<>>
    /\ bodyLoads = <<>>
    /\ accelerations = <<>>

RunIdle == args = Unset /\ report = Unset /\ log = Unset /\ outFile = Unset

DofIdle ==
    /\ mesh = Unset
    /\ nodeSets = Unset
    /\ boundaryConditions = Unset
    /\ elementSets = Unset
    /\ surfaceSets = Unset
    /\ materials = Unset
    /\ sections = Unset
    /\ concentratedLoads = Unset
    /\ surfaceTractions = Unset
    /\ pressures = Unset
    /\ bodyLoads = Unset
    /\ accelerations = Unset
    /\ RunIdle
    /\ pc = "idle"
    /\ Ub = Unset

CsrIdle == coo = Unset /\ csr = Unset

IoIdle == fs = Unset /\ odb = Unset /\ passed = Unset /\ call = Unset

Init ==
    /\ mesh \in Meshes
    /\ nodeSets = InitialNodeSets
    /\ ModelEmpty
    /\ RunIdle
    /\ boundaryConditions = <<>>
    /\ pc = "populate"
    /\ Ub = Unset
    /\ assembled = Unset
    /\ CsrIdle
    /\ IoIdle

\* MDB.boundaryCondition with displacements drawn from D: a name in use raises
\* ValueError and changes nothing
boundaryCondition(D) ==
    /\ pc = "populate"
    /\ \E name \in BCNames :
          IF name \in Keys(boundaryConditions)
          THEN UNCHANGED boundaryConditions
          ELSE \E region \in Keys(nodeSets), u, v, w \in Optional(D) :
                   boundaryConditions' =
                       Append(boundaryConditions,
                              <<name, BoundaryCondition(region, u, v, w)>>)
    /\ UNCHANGED <<modelVars, runVars, mesh, nodeSets, pc, Ub, assembled, coo, csr, ioVars>>

AddBoundaryCondition == boundaryCondition(Disp)

\* solve, general pre-processing: mdb._buildDOFs()
BuildDOFs ==
    /\ pc = "populate"
    /\ mesh' = buildDOFs(mesh, boundaryConditions, nodeSets)
    /\ pc' = "preprocessed"
    /\ UNCHANGED <<modelVars, runVars, nodeSets, boundaryConditions, Ub, assembled, coo, csr, ioVars>>

\* _staticAnalysis: Ub = pro.assemblePrescribedDisplacementVector(mdb)
AssemblePrescribedDisplacementVector ==
    /\ pc = "preprocessed"
    /\ Ub' = assemblePrescribedDisplacementVector(mesh, boundaryConditions, nodeSets)
    /\ pc' = "prescribed"
    /\ UNCHANGED <<modelVars, runVars, mesh, nodeSets, boundaryConditions, assembled, coo, csr, ioVars>>

Next ==
    \/ AddBoundaryCondition
    \/ BuildDOFs
    \/ AssemblePrescribedDisplacementVector

Spec == Init /\ [][Next]_vars

-----------------------------------------------------------------------------
(* Assembly of a system matrix: supports are fixed (zero displacements),   *)
(* the DOFs are built, the element matrices are assembled                  *)

FixSupport == boundaryCondition({0})

\* assembleStiffnessMatrix: assembleMatrix(mdb.mesh.elements, matrices, counts)
AssembleMatrix ==
    /\ pc = "preprocessed"
    /\ assembled' = assembleMatrix(mesh.elements, ElementMatrices(mesh),
                                   mesh.activeDOFCount, mesh.inactiveDOFCount)
    /\ pc' = "assembled"
    /\ UNCHANGED <<modelVars, runVars, mesh, nodeSets, boundaryConditions, Ub, coo, csr, ioVars>>

NextAssemble ==
    \/ FixSupport
    \/ BuildDOFs
    \/ AssembleMatrix

SpecAssemble == Init /\ [][NextAssemble]_vars

-----------------------------------------------------------------------------
(* Assembly of the same elements in another order. Real is np.float64: a   *)
(* sum is rounded to the nearest representable number, ties to the even    *)
(* significand. The numbers of the model are k * 2^53 + s with small k and *)
(* s, written [big |-> k, small |-> s]; below 2^53 the integers are exact, *)
(* from 2^53 the spacing is 2, from 2^54 it is 4                           *)

RealOf(n) == [big |-> 0, small |-> n]

\* the spacing of float64 at k * 2^53 + s, for k <= 3 and 0 <= s < 2^53
Spacing(big) == IF big = 0 THEN 1 ELSE IF big = 1 THEN 2 ELSE 4

\* round to nearest, ties to even: k * 2^53 / spacing is even
RoundToSpacing(big, small, spacing) ==
    [big |-> big,
     small |-> spacing *
         (IF \/ 2 * (small % spacing) > spacing
             \/ (2 * (small % spacing) = spacing /\ (small \div spacing) % 2 = 1)
          THEN (small \div spacing) + 1
          ELSE small \div spacing)]

\* x + y of two float64 numbers
AddReal(x, y) == RoundToSpacing(x.big + y.big, x.small + y.small, Spacing(x.big + y.big))

\* vec[globalDOFs,] += V[localDOFs,]
AddAt(vec, globalDOFs, V, localDOFs) ==
    [g \in 1 .. Len(vec) |->
        IF \E p \in 1 .. Len(globalDOFs) : globalDOFs[p] = g - 1
        THEN AddReal(vec[g],
                     At(V, localDOFs[Max({p \in 1 .. Len(globalDOFs) : globalDOFs[p] = g - 1})]))
        ELSE vec[g]]

\* for element, V in zip(elements, vectors): ...
RECURSIVE AssembleVectorFrom(_, _, _, _)
AssembleVectorFrom(acc, elements, vectors, k) ==
    IF k > Len(elements) \/ k > Len(vectors) THEN acc
    ELSE AssembleVectorFrom(
             [Va |-> AddAt(acc.Va, elements[k].activeGlobalDOFs, vectors[k],
                           elements[k].activeLocalDOFs),
              Vb |-> AddAt(acc.Vb, elements[k].inactiveGlobalDOFs, vectors[k],
                           elements[k].inactiveLocalDOFs)],
             elements, vectors, k + 1)

assembleVector_assigning(elements, vectors, activeDOFCount, inactiveDOFCount) ==
    AssembleVectorFrom([Va |-> [g \in 1 .. activeDOFCount |-> RealOf(0)],
                        Vb |-> [g \in 1 .. inactiveDOFCount |-> RealOf(0)]],
                       SubSeq(elements, Len(elements), Len(elements)),
                       SubSeq(vectors, Len(vectors), Len(vectors)), 1)

assembleVector(elements, vectors, activeDOFCount, inactiveDOFCount) ==
    AssembleVectorFrom([Va |-> [g \in 1 .. activeDOFCount |-> RealOf(0)],
                        Vb |-> [g \in 1 .. inactiveDOFCount |-> RealOf(0)]],
                       elements, vectors, 1)

\* three triangles around node 0
FanMesh ==
    Mesh(<< <<1, 1, 0>>, <<0, 0, 0>>, <<2, 0, 0>>, <<2, 2, 0>>, <<0, 2, 0>> >>,
         << <<"Plane3", <<0, 1, 2>> >>, <<"Plane3", <<0, 2, 3>> >>,
            <<"Plane3", <<0, 3, 4>> >> >>).value

FanNodeSets == << <<"hub", NodeSet({0})>>, <<"rim", NodeSet({1, 2})>> >>

\* the hub fixed, the rim fixed
FanSupports ==
    { << <<"fix", BoundaryCondition("hub", Some(0), Some(0), None)>> >>,
      << <<"fix", BoundaryCondition("rim", Some(0), Some(0), None)>> >> }

\* the entries of an element vector: 1.0 or 2.0^53, the same on every local DOF
RealInputs == {RealOf(1), [big |-> 1, small |-> 0]}

ElementVector(value, element, modelingSpace) ==
    [i \in 1 .. Len(element.nodeIndices) * modelingSpace |-> value]

\* the orders of a sequence of n elements
Orders(n) == {order \in [1 .. n -> 1 .. n] : \A i, j \in 1 .. n : order[i] = order[j] => i = j}

Permuted(sequence, order) == [k \in 1 .. Len(order) |-> sequence[order[k]]]

InitPermute ==
    /\ nodeSets = FanNodeSets
    /\ boundaryConditions \in FanSupports
    /\ mesh = buildDOFs(FanMesh, boundaryConditions, nodeSets)
    /\ ModelEmpty
    /\ RunIdle
    /\ pc = "preprocessed"
    /\ Ub = Unset
    /\ CsrIdle
    /\ fs = Unset
    /\ odb = Unset
    /\ \E values \in [1 .. mesh.elementCount -> RealInputs] :
          passed = [vectors |-> [k \in 1 .. mesh.elementCount |->
                                    ElementVector(values[k], mesh.elements[k],
                                                  mesh.modelingSpace)]]
    /\ assembled = [M |-> <<>>, V |-> <<>>]
    /\ call = [op |-> "none"]

\* the first result of the run and the one of this call
Kept(results, result) == IF results = <<>> THEN <<result, result>> ELSE <<results[1], result>>

\* assembleMatrix(elements, matrices, ...) with the elements in the given order
AssembleMatrixInOrder ==
    /\ \E order \in Orders(mesh.elementCount) :
          /\ assembled' =
                 [assembled EXCEPT !.M =
                     Kept(assembled.M,
                          assembleMatrix(Permuted(mesh.elements, order),
                                         Permuted(ElementMatrices(mesh), order),
                                         mesh.activeDOFCount, mesh.inactiveDOFCount).result)]
          /\ call' = [op |-> "assembleMatrix", order |-> order]
    /\ UNCHANGED <<modelVars, runVars, mesh, nodeSets, boundaryConditions, Ub, coo, csr, pc,
                   fs, odb, passed>>

\* assembleVector(elements, vectors, ...) with the elements in the given order
AssembleVectorInOrder ==
    /\ \E order \in Orders(mesh.elementCount) :
          /\ assembled' =
                 [assembled EXCEPT !.V =
                     Kept(assembled.V,
                          assembleVector(Permuted(mesh.elements, order),
                                         Permuted(passed.vectors, order),
                                         mesh.activeDOFCount, mesh.inactiveDOFCount))]
          /\ call' = [op |-> "assembleVector", order |-> order]
    /\ UNCHANGED <<modelVars, runVars, mesh, nodeSets, boundaryConditions, Ub, coo, csr, pc,
                   fs, odb, passed>>

NextPermute ==
    \/ AssembleMatrixInOrder
    \/ AssembleVectorInOrder

SpecPermute == InitPermute /\ [][NextPermute]_vars

-----------------------------------------------------------------------------
(* loop: the procedure is applied to every entry of the arguments, by a    *)
(* sequential map or by the workers of a pool. Pool.starmap cuts the       *)
(* arguments into chunks, queues one task per chunk, the workers take the  *)
(* tasks in turn and finish them in any order, and the result of a task is *)
(* stored at the position of its chunk                                     *)

MaxArguments == 3

MaxProcesses == 3

\* the argument tuples of zip(mdb.mesh.elements): one element each
ArgumentInputs ==
    UNION {[1 .. n -> {<<e>> : e \in Range0(MaxArguments)}] : n \in 0 .. MaxArguments}

\* the procedure, a function of its arguments alone: the element matrix of the element
procedure(arguments) == [matrixOf |-> arguments[1]]

\* starmap: chunksize, extra = divmod(len(iterable), len(pool) * 4); if extra: chunksize += 1
Chunksize(length, processes) ==
    IF length % (processes * 4) = 0 THEN length \div (processes * 4)
    ELSE length \div (processes * 4) + 1

\* the tasks of the map: task i holds the entries i * chunksize ... of the arguments
Tasks(arguments, chunksize) ==
    IF chunksize = 0 THEN <<>>
    ELSE [i \in 1 .. ((Len(arguments) + chunksize - 1) \div chunksize) |->
             [index |-> i - 1,
              chunk |-> SubSeq(arguments, (i - 1) * chunksize + 1,
                               IF i * chunksize < Len(arguments) THEN i * chunksize
                               ELSE Len(arguments))]]

\* a worker's result for a task: the procedure applied to each entry of the chunk
Mapstar(chunk) == [k \in 1 .. Len(chunk) |-> procedure(chunk[k])]

StoreResult_appended(value, index, chunksize, result) ==
    [k \in 1 .. Len(value) |->
        IF \E j \in 1 .. Len(value) : value[j] = None /\ (\A q \in 1 .. j - 1 : value[q] # None)
                                      /\ j <= k /\ k < j + Len(result)
        THEN Some(result[k + 1 - Min({j \in 1 .. Len(value) : value[j] = None})])
        ELSE value[k]]

\* MapResult._set: self._value[i * chunksize : (i + 1) * chunksize] = result
StoreResult(value, index, chunksize, result) ==
    [k \in 1 .. Len(value) |->
        IF index * chunksize < k /\ k <= index * chunksize + Len(result)
        THEN Some(result[k - index * chunksize])
        ELSE value[k]]

InitLoop ==
    /\ DofIdle
    /\ RunIdle
    /\ Ub = Unset
    /\ assembled = Unset
    /\ CsrIdle
    /\ fs = Unset
    /\ odb = Unset
    /\ pc = "idle"
    /\ passed = Unset
    /\ call = Unset

loopUnchanged == <<mesh, nodeSets, boundaryConditions, modelVars, runVars, Ub, coo, csr, fs, odb>>

\* loop(procedure, arguments, processes) with processes <= 1:
\* return [*map(lambda x: procedure(*x), arguments)]
LoopSequential ==
    /\ pc = "idle"
    /\ \E arguments \in ArgumentInputs, processes \in 0 .. 1 :
          /\ passed' = [arguments |-> arguments, processes |-> processes]
          /\ assembled' = [k \in 1 .. Len(arguments) |-> procedure(arguments[k])]
    /\ call' = [op |-> "map"]
    /\ pc' = "returned"
    /\ UNCHANGED loopUnchanged

\* loop with processes > 1: the pool is created and starmap queues the tasks
LoopParallel ==
    /\ pc = "idle"
    /\ \E arguments \in ArgumentInputs, processes \in 2 .. MaxProcesses :
          /\ passed' = [arguments |-> arguments, processes |-> processes]
          /\ call' = [op |-> "starmap",
                      chunksize |-> Chunksize(Len(arguments), processes),
                      queue |-> Tasks(arguments, Chunksize(Len(arguments), processes)),
                      running |-> [w \in 1 .. processes |-> None],
                      value |-> [k \in 1 .. Len(arguments) |-> None]]
    /\ pc' = "pool"
    /\ UNCHANGED <<assembled, loopUnchanged>>

\* an idle worker takes the next task of the queue
WorkerTakes ==
    /\ pc = "pool"
    /\ call.queue # <<>>
    /\ \E w \in 1 .. passed.processes :
          /\ call.running[w] = None
          /\ call' = [call EXCEPT !.queue = Tail(call.queue),
                                  !.running[w] = Some(Head(call.queue))]
    /\ UNCHANGED <<pc, passed, assembled, loopUnchanged>>

\* a worker finishes its task; the result is stored at the position of the chunk
WorkerFinishes ==
    /\ pc = "pool"
    /\ \E w \in 1 .. passed.processes :
          /\ call.running[w] # None
          /\ call' = [call EXCEPT !.running[w] = None,
                                  !.value = StoreResult(call.value, call.running[w][1].index,
                                                        call.chunksize,
                                                        Mapstar(call.running[w][1].chunk))]
    /\ UNCHANGED <<pc, passed, assembled, loopUnchanged>>

\* every task is done: starmap returns the list and the pool is closed
LoopReturns ==
    /\ pc = "pool"
    /\ call.queue = <<>>
    /\ \A w \in 1 .. passed.processes : call.running[w] = None
    /\ assembled' = [k \in 1 .. Len(call.value) |-> call.value[k][1]]
    /\ pc' = "returned"
    /\ UNCHANGED <<passed, call, loopUnchanged>>

NextLoop ==
    \/ LoopSequential
    \/ LoopParallel
    \/ WorkerTakes
    \/ WorkerFinishes
    \/ LoopReturns

SpecLoop == InitLoop /\ [][NextLoop]_vars

-----------------------------------------------------------------------------
(* SparseCSR on its own: a caller emits COO triplets, then constructs      *)

\* a COO array holds at most MaxNNZ triplets; a matrix has at most MaxDim rows or columns
MaxNNZ == 3

MaxDim == 2

CooValues == {-1, 1}

InitCSR ==
    /\ DofIdle
    /\ assembled = Unset
    /\ \E rowCount, columnCount \in 1 .. MaxDim :
          coo = [rowCount |-> rowCount, columnCount |-> columnCount,
                 rowIndices |-> <<>>, columnIndices |-> <<>>, values |-> <<>>]
    /\ csr = Unset
    /\ IoIdle

\* the caller writes one more (row, column, value) triplet into its COO arrays
EmitTriplet ==
    /\ csr = Unset
    /\ Len(coo.values) < MaxNNZ
    /\ \E row \in Range0(coo.rowCount), col \in Range0(coo.columnCount), value \in CooValues :
          coo' = [coo EXCEPT !.rowIndices = Append(@, row),
                             !.columnIndices = Append(@, col),
                             !.values = Append(@, value)]
    /\ UNCHANGED <<modelVars, runVars, mesh, nodeSets, boundaryConditions, pc, Ub, assembled, csr, ioVars>>

\* SparseCSR(rowCount, columnCount, rowIndices, columnIndices, values)
ConstructSparseCSR ==
    /\ csr = Unset
    /\ csr' = SparseCSR(coo.rowCount, coo.columnCount,
                        coo.rowIndices, coo.columnIndices, coo.values)
    /\ UNCHANGED <<modelVars, runVars, mesh, nodeSets, boundaryConditions, pc, Ub, assembled, coo, ioVars>>

NextCSR ==
    \/ EmitTriplet
    \/ ConstructSparseCSR

SpecCSR == InitCSR /\ [][NextCSR]_vars

-----------------------------------------------------------------------------
(* The objects of the model database                                       *)

\* math.sqrt on the integers: the root rounded down, zero exactly when its argument is
Sqrt(q) == CHOOSE r \in 0 .. q : r * r <= q /\ (r + 1) * (r + 1) > q

ElementSet(indices) == SortedTuple(indices)

Material(young, poisson, density) ==
    [young |-> young, poisson |-> poisson, density |-> density]

Section(region, material, type, thickness, reducedIntegration) ==
    [region |-> region, material |-> material, type |-> type,
     thickness |-> thickness, reducedIntegration |-> reducedIntegration]

\* ConcentratedLoad, SurfaceTraction, BodyLoad and Acceleration share one shape
VectorLoad(region, x, y, z) ==
    [region |-> region, x |-> x, y |-> y, z |-> z,
     magnitude |-> Sqrt(x * x + y * y + z * z)]

Pressure(region, magnitude) == [region |-> region, magnitude |-> magnitude]

\* ElementTypes.surfaces: the local connectivity of each surface of the element type
ElementTypes_surfaces(type) ==
    CASE type = "Plane3" -> << <<0, 1>>, <<1, 2>>, <<2, 0>> >>
      [] type = "Volume4" -> << <<0, 2, 1>>, <<0, 3, 2>>, <<0, 1, 3>>, <<1, 2, 3>> >>

\* the model database as the validator receives it
MDB ==
    [mesh |-> mesh, nodeSets |-> nodeSets, elementSets |-> elementSets,
     surfaceSets |-> surfaceSets, materials |-> materials, sections |-> sections,
     concentratedLoads |-> concentratedLoads, surfaceTractions |-> surfaceTractions,
     pressures |-> pressures, bodyLoads |-> bodyLoads, accelerations |-> accelerations,
     boundaryConditions |-> boundaryConditions]

-----------------------------------------------------------------------------
(* The validator: checkMDB and its checks.  A check is modelled by the      *)
(* errors and the warnings it appends to the two lists                     *)

Appended(errors, warnings) == [errors |-> errors, warnings |-> warnings]

\* the messages a loop over the items of a dict appends, in the order of the items
ForItems(dict, Messages(_, _)) ==
    Flatten([k \in 1 .. Len(dict) |-> Messages(dict[k][1], dict[k][2])])

If(condition, message) == IF condition THEN <<message>> ELSE <<>>

\* counts[elementIndex]: the number of times the sections reach the element
SectionCounts(mdb) ==
    [k \in 1 .. mdb.mesh.elementCount |->
        Cardinality({s \in 1 .. Len(mdb.sections) :
            /\ mdb.sections[s][2].region \in Keys(mdb.elementSets)
            /\ (k - 1) \in Elems(Get(mdb.elementSets, mdb.sections[s][2].region))})]

checkMesh_atLeastOnce(mdb) ==
    LET counts == SectionCounts(mdb)
    IN Appended(If(\E k \in 1 .. Len(counts) : counts[k] = 0,
                 "elements with undefined or over-defined section assignments detected"),
              <<>>)

checkMesh(mdb) ==
    LET counts == SectionCounts(mdb)
    IN Appended(If(Cardinality({k \in 1 .. Len(counts) : counts[k] = 1}) # Len(counts),
                 "elements with undefined or over-defined section assignments detected"),
              <<>>)

IndexSetMessages(kind, name) ==
    [empty |-> kind \o " set '" \o name \o "' is empty",
     invalid |-> kind \o " set '" \o name \o "' contains invalid indices"]

checkNodeSets(mdb) ==
    LET Invalid(indices) == Min(Elems(indices)) < 0 \/ Max(Elems(indices)) >= mdb.mesh.nodeCount
        Errors(name, indices) ==
            If(Len(indices) # 0 /\ Invalid(indices), IndexSetMessages("node", name).invalid)
        Warnings(name, indices) == If(Len(indices) = 0, IndexSetMessages("node", name).empty)
    IN Appended(ForItems(mdb.nodeSets, Errors), ForItems(mdb.nodeSets, Warnings))

checkElementSets(mdb) ==
    LET Invalid(indices) ==
            Min(Elems(indices)) < 0 \/ Max(Elems(indices)) >= mdb.mesh.elementCount
        Errors(name, indices) ==
            If(Len(indices) # 0 /\ Invalid(indices), IndexSetMessages("element", name).invalid)
        Warnings(name, indices) == If(Len(indices) = 0, IndexSetMessages("element", name).empty)
    IN Appended(ForItems(mdb.elementSets, Errors), ForItems(mdb.elementSets, Warnings))

checkSurfaceSets(mdb) ==
    LET Invalid(index) ==
            \/ index[1] < 0
            \/ index[1] >= mdb.mesh.elementCount
            \/ index[2] < 0
            \/ index[2] >= Len(ElementTypes_surfaces(At(mdb.mesh.elements, index[1]).type))
        Errors(name, indices) ==
            If(\E k \in 1 .. Len(indices) : Invalid(indices[k]),
               IndexSetMessages("surface", name).invalid)
        Warnings(name, indices) == If(Len(indices) = 0, IndexSetMessages("surface", name).empty)
    IN Appended(ForItems(mdb.surfaceSets, Errors), ForItems(mdb.surfaceSets, Warnings))

checkMaterials(mdb) ==
    LET Errors(name, material) ==
            If(material.young <= 0,
               "material '" \o name \o "' has a Young's modulus that is less than or equal to zero")
            \o If(material.poisson <= -1 \/ 2 * material.poisson >= 1,
                  "material '" \o name
                  \o "' has a Poisson's ratio that lies outside the open interval of (-1.0, 0.5)")
            \o If(material.density < 0,
                  "material '" \o name \o "' has a mass density that is less than zero")
    IN Appended(ForItems(mdb.materials, Errors), <<>>)

sectionTypes2D == {"PlaneStress", "PlaneStrain", "Axisymmetric"}

sectionTypes3D == {"General"}

checkSections_materialUnchecked(mdb) ==
    LET Errors(name, section) ==
            If(section.region \notin Keys(mdb.elementSets),
               "section '" \o name \o "' references a non-existent element set '"
               \o section.region \o "'")
            \o If(\/ mdb.mesh.modelingSpace = TwoDimensional /\ section.type \notin sectionTypes2D
                  \/ mdb.mesh.modelingSpace = ThreeDimensional /\ section.type \notin sectionTypes3D,
                  "section '" \o name \o "' of type '" \o section.type
                  \o "' is invalid for the current modeling space")
            \o If(section.type \in {"PlaneStress", "PlaneStrain"} /\ section.thickness <= 0,
                  "section '" \o name \o "' of type '" \o section.type
                  \o "' has negative or no thickness")
    IN Appended(ForItems(mdb.sections, Errors), <<>>)

checkSections(mdb) ==
    LET Errors(name, section) ==
            If(section.region \notin Keys(mdb.elementSets),
               "section '" \o name \o "' references a non-existent element set '"
               \o section.region \o "'")
            \o If(section.material \notin Keys(mdb.materials),
                  "section '" \o name \o "' references a non-existent material '"
                  \o section.material \o "'")
            \o If(\/ mdb.mesh.modelingSpace = TwoDimensional /\ section.type \notin sectionTypes2D
                  \/ mdb.mesh.modelingSpace = ThreeDimensional /\ section.type \notin sectionTypes3D,
                  "section '" \o name \o "' of type '" \o section.type
                  \o "' is invalid for the current modeling space")
            \o If(section.type \in {"PlaneStress", "PlaneStrain"} /\ section.thickness <= 0,
                  "section '" \o name \o "' of type '" \o section.type
                  \o "' has negative or no thickness")
    IN Appended(ForItems(mdb.sections, Errors), <<>>)

\* the checks of the loads given by their components: concentrated loads, surface
\* tractions, body loads and accelerations
checkVectorLoads(mdb, loads, kind, regions, regionKind) ==
    LET Errors(name, load) ==
            If(load.region \notin Keys(regions),
               kind \o " '" \o name \o "' references a non-existent " \o regionKind \o " '"
               \o load.region \o "'")
        Warnings(name, load) ==
            IF load.magnitude = 0
            THEN <<kind \o " '" \o name \o "' has a magnitude of zero">>
            ELSE If(load.z # 0 /\ mdb.mesh.modelingSpace = TwoDimensional,
                    kind \o " '" \o name
                    \o "' has a nonzero component along the Z-axis that will be ignored")
    IN Appended(ForItems(loads, Errors), ForItems(loads, Warnings))

checkConcentratedLoads(mdb) ==
    checkVectorLoads(mdb, mdb.concentratedLoads, "concentrated load",
                     mdb.nodeSets, "node set")

checkSurfaceTractions(mdb) ==
    checkVectorLoads(mdb, mdb.surfaceTractions, "surface traction",
                     mdb.surfaceSets, "surface set")

checkPressures(mdb) ==
    LET Errors(name, load) ==
            If(load.region \notin Keys(mdb.surfaceSets),
               "pressure '" \o name \o "' references a non-existent surface set '"
               \o load.region \o "'")
        Warnings(name, load) ==
            If(load.magnitude = 0, "pressure '" \o name \o "' has a magnitude of zero")
    IN Appended(ForItems(mdb.pressures, Errors), ForItems(mdb.pressures, Warnings))

checkBodyLoads(mdb) ==
    checkVectorLoads(mdb, mdb.bodyLoads, "body load", mdb.elementSets, "element set")

checkAccelerations(mdb) ==
    checkVectorLoads(mdb, mdb.accelerations, "acceleration",
                     mdb.elementSets, "element set")

checkBoundaryConditions(mdb) ==
    LET Errors(name, boundary) ==
            If(boundary.region \notin Keys(mdb.nodeSets),
               "boundary condition '" \o name \o "' references a non-existent node set '"
               \o boundary.region \o "'")
        Warnings(name, boundary) ==
            IF Len(boundary.dofs) = 0
            THEN <<"boundary condition '" \o name \o "' has no constrained degrees of freedom">>
            ELSE If(Max(Elems(boundary.dofs)) = 2 /\ mdb.mesh.modelingSpace = TwoDimensional,
                    "boundary condition '" \o name
                    \o "' has constraints along the Z-axis that will be ignored")
    IN Appended(ForItems(mdb.boundaryConditions, Errors),
              ForItems(mdb.boundaryConditions, Warnings))

checkFrequencyAnalysis(mdb) ==
    Appended(If(\E k \in 1 .. Len(mdb.materials) : mdb.materials[k][2].density = 0,
              "the mass density must be specified for a frequency analysis"),
           If(\E x \in {mdb.concentratedLoads, mdb.surfaceTractions, mdb.pressures,
                        mdb.accelerations, mdb.bodyLoads} : Len(x) > 0,
              "any type of loading is ignored during a frequency analysis")
           \o If(\E k \in 1 .. Len(mdb.boundaryConditions) :
                     \E x \in Elems(mdb.boundaryConditions[k][2].displacements) : x # 0,
                 "any prescribed nodal displacement is assumed to be zero during a frequency analysis"))

\* the lists after the common checks, run in their order
CommonChecks(mdb) ==
    [errors |->
        checkMesh(mdb).errors
        \o checkNodeSets(mdb).errors
        \o checkElementSets(mdb).errors
        \o checkSurfaceSets(mdb).errors
        \o checkMaterials(mdb).errors
        \o checkSections(mdb).errors
        \o checkConcentratedLoads(mdb).errors
        \o checkSurfaceTractions(mdb).errors
        \o checkPressures(mdb).errors
        \o checkBodyLoads(mdb).errors
        \o checkAccelerations(mdb).errors
        \o checkBoundaryConditions(mdb).errors,
     warnings |->
        checkMesh(mdb).warnings
        \o checkNodeSets(mdb).warnings
        \o checkElementSets(mdb).warnings
        \o checkSurfaceSets(mdb).warnings
        \o checkMaterials(mdb).warnings
        \o checkSections(mdb).warnings
        \o checkConcentratedLoads(mdb).warnings
        \o checkSurfaceTractions(mdb).warnings
        \o checkPressures(mdb).warnings
        \o checkBodyLoads(mdb).warnings
        \o checkAccelerations(mdb).warnings
        \o checkBoundaryConditions(mdb).warnings]

\* checkMDB: the common checks, then the frequency checks
checkMDB(mdb, analysisType) ==
    IF analysisType = "frequency"
    THEN [errors |-> CommonChecks(mdb).errors \o checkFrequencyAnalysis(mdb).errors,
          warnings |-> CommonChecks(mdb).warnings \o checkFrequencyAnalysis(mdb).warnings]
    ELSE CommonChecks(mdb)

-----------------------------------------------------------------------------
(* MDB._assignElementProperties                                            *)

\* for elementIndex in indices: element._section = section; element._material = material
RECURSIVE AssignElements(_, _, _, _)

AssignElements(elements, indices, section, material) ==
    IF indices = <<>> THEN [elements |-> elements, raised |-> None]
    ELSE LET i == IF Head(indices) < 0 THEN Head(indices) + Len(elements) ELSE Head(indices)
         IN IF i \notin Range0(Len(elements))
            THEN [elements |-> elements, raised |-> Some(IndexError)]
            ELSE AssignElements([elements EXCEPT ![i + 1].section = section,
                                                 ![i + 1].material = material],
                                Tail(indices), section, material)

\* for section in self.sections.values(): ...
RECURSIVE AssignSections(_, _, _, _)

AssignSections(elements, sectionValues, mats, sets) ==
    IF sectionValues = <<>> THEN [elements |-> elements, raised |-> None]
    ELSE LET section == Head(sectionValues)
         IN IF section.material \notin Keys(mats) \/ section.region \notin Keys(sets)
            THEN [elements |-> elements, raised |-> Some(KeyError)]
            ELSE LET done == AssignElements(elements, Get(sets, section.region), section,
                                            Get(mats, section.material))
                 IN IF done.raised # None THEN done
                    ELSE AssignSections(done.elements, Tail(sectionValues), mats, sets)

\* the mesh after the call, and the exception the call raised, if any; an element
\* refers to its nodes by their indices
assignElementProperties(msh, secs, mats, sets) ==
    LET withNodes == [k \in 1 .. Len(msh.elements) |->
                         [msh.elements[k] EXCEPT !.nodes = msh.elements[k].nodeIndices]]
        done == AssignSections(withNodes, Values(secs), mats, sets)
    IN [mesh |-> [msh EXCEPT !.elements = done.elements], raised |-> done.raised]

\* MDB._buildDOFs: the exception the table of active DOFs raises for a boundary
\* condition, if any: its region names no node set, or a node index lies outside the table
buildDOFsRaisesFor(msh, bc, sets) ==
    IF ~\E d \in Elems(bc.dofs) : 0 <= d /\ d < msh.modelingSpace THEN None
    ELSE IF bc.region \notin Keys(sets) THEN Some(KeyError)
    ELSE IF \E i \in Elems(Get(sets, bc.region)) : i < -msh.nodeCount \/ i >= msh.nodeCount
         THEN Some(IndexError)
         ELSE None

\* the exception of the first boundary condition that raises one
buildDOFsRaises(msh, bcs, sets) ==
    LET failing == {k \in 1 .. Len(bcs) : buildDOFsRaisesFor(msh, bcs[k][2], sets) # None}
    IN IF failing = {} THEN None ELSE buildDOFsRaisesFor(msh, bcs[Min(failing)][2], sets)

-----------------------------------------------------------------------------
(* solve: the log, the model database checks, the pre-processing and the   *)
(* analysis drivers                                                        *)

\* the analysis argument: the three analysis types, one written with other case and
\* spaces, one undefined
Analyses == {"static", "frequency", "buckling", " Frequency ", "modal"}

\* analysis.strip().lower() on the arguments of Analyses
StripLower(text) == IF text = " Frequency " THEN "frequency" ELSE text

RECURSIVE Spaces(_)
Spaces(k) == IF k <= 0 THEN "" ELSE " " \o Spaces(k - 1)

\* f"{text:^width}": the padding that does not split evenly goes to the right
Center(text, width) ==
    LET pad == width - Len(text)
    IN IF pad <= 0 THEN text ELSE Spaces(pad \div 2) \o text \o Spaces(pad - pad \div 2)

Banner(version, now) ==
    << "+-------------------------------------+",
       "|                                     |",
       "|   F E A P A C K   -   S O L V E R   |",
       "|  ---------------------------------  |",
       "|" \o Center("VERSION " \o version, 37) \o "|",
       "|                                     |",
       "|   DATE " \o now.date \o "   TIME " \o now.time \o "   |",
       "|                                     |",
       "|                                     |",
       "|" \o Center("--- START OF RUN ---", 37) \o "|",
       "|                                     |",
       "+-------------------------------------+",
       "" >>

GeneralInfo(analysisType, processes) ==
    << "GENERAL INFO",
       "------------",
       "* Analysis    " \o StripLower(analysisType),
       "* Mode        " \o (IF processes > 1 THEN "parallel" ELSE "sequential"),
       "* Processes   " \o ToString(IF processes > 1 THEN processes ELSE 1),
       "" >>

Prefixed(prefix, messages) == [k \in 1 .. Len(messages) |-> prefix \o messages[k]]

Summary(errorCount, warningCount) ==
    IF errorCount = 0 /\ warningCount = 0
    THEN "Basic checks found no warnings nor errors"
    ELSE "Basic checks found "
         \o (IF warningCount > 0 THEN ToString(warningCount) \o " warning(s)" ELSE "")
         \o (IF warningCount > 0 /\ errorCount > 0 THEN " and " ELSE "")
         \o (IF errorCount > 0 THEN ToString(errorCount) \o " error(s)" ELSE "")

ChecksReport(errors, warnings) ==
    Prefixed("[Warning] ", warnings)
    \o Prefixed("[Error] ", errors)
    \o << Summary(Len(errors), Len(warnings)), "" >>

\* the except clause: the traceback of the exception
ExceptionLog(exception, message) ==
    << "",
       "Traceback (most recent call last): " \o exception.raised \o ": " \o message,
       "Solver has stopped prematurely due to an exception (see above)" >>

\* the finally clause
FinalLog(elapsed) ==
    << "Elapsed time is " \o elapsed \o " seconds", "--- END OF RUN ---" >>

PreProcessingLog(msh) ==
    << "PRE-PROCESSING",
       "--------------",
       "Number of nodes: " \o ToString(msh.nodeCount),
       "Number of elements: " \o ToString(msh.elementCount),
       "Number of active degrees of freedom: " \o ToString(msh.activeDOFCount),
       "Number of inactive degrees of freedom: " \o ToString(msh.inactiveDOFCount),
       "" >>

AnalysisTitle(kind) ==
    CASE kind = "static" -> << "STATIC ANALYSIS", "---------------" >>
      [] kind = "frequency" -> << "FREQUENCY ANALYSIS", "------------------" >>
      [] kind = "buckling" -> << "BUCKLING ANALYSIS", "-----------------" >>

\* the messages of a driver that completes; frames is the number of frames it writes
DriverLog(kind, frames) ==
    LET writing == [i \in 1 .. frames |->
                       "Writing output frame " \o ToString(i - 1) \o " to file..."]
    IN CASE kind = "static" ->
                << "Building algebraic system...", "Solving algebraic system...",
                   "General post-processing..." >> \o writing
         [] kind = "frequency" ->
                << "Building algebraic system...", "Solving eigenproblem...",
                   "General post-processing..." >> \o writing
         [] kind = "buckling" ->
                << "Building algebraic system for static analysis...",
                   "Solving algebraic system (static analysis)...",
                   "Building algebraic system for buckling analysis...",
                   "Solving eigenproblem...", "General post-processing..." >> \o writing

\* the number of messages a driver has logged when an exception leaves it from the
\* assembly of the stiffness matrix, from the first native solver, from the eigensolver
LoggedBefore(kind, point) ==
    CASE point = "assembly" -> 1
      [] point = "solver" -> 2
      [] point = "eigensolver" -> IF kind = "buckling" THEN 4 ELSE 2

\* assembleMatrix raises ValueError: one of its four blocks has no entries, and
\* SparseCSR does not accept empty arrays
assembleMatrixRaises(elements) ==
    \E rowPrefix, colPrefix \in {"active", "inactive"} :
        BlockSize(elements, rowPrefix \o "LocalDOFs", colPrefix \o "LocalDOFs") = 0

\* _staticAnalysis: the titles of the node output of frame 1, in the order of the dict
StaticNodeOutputTitles ==
    << "Displacement>Displacement in X",
       "Displacement>Displacement in Y",
       "Displacement>Displacement in Z",
       "Displacement>Magnitude of Displacement",
       "Reaction Force>Reaction Force in X",
       "Reaction Force>Reaction Force in Y",
       "Reaction Force>Reaction Force in Z",
       "Reaction Force>Magnitude of Reaction Force",
       "Nodal Force>Nodal Force in X",
       "Nodal Force>Nodal Force in Y",
       "Nodal Force>Nodal Force in Z",
       "Nodal Force>Magnitude of Nodal Force",
       "Strain>Component XX of Strain",
       "Strain>Component YY of Strain",
       "Strain>Component ZZ of Strain",
       "Strain>Component YZ of Strain",
       "Strain>Component ZX of Strain",
       "Strain>Component XY of Strain",
       "Strain>Max. Principal Value of Strain",
       "Strain>Mid. Principal Value of Strain",
       "Strain>Min. Principal Value of Strain",
       "Strain>Major Principal Value of Strain",
       "Stress>Component XX of Stress",
       "Stress>Component YY of Stress",
       "Stress>Component ZZ of Stress",
       "Stress>Component YZ of Stress",
       "Stress>Component ZX of Stress",
       "Stress>Component XY of Stress",
       "Stress>Max. Principal Value of Stress",
       "Stress>Mid. Principal Value of Stress",
       "Stress>Min. Principal Value of Stress",
       "Stress>Major Principal Value of Stress",
       "Stress>Equivalent Tresca Stress",
       "Stress>Equivalent Mises Stress",
       "Stress>Equivalent Pressure Stress" >>

\* _frequencyAnalysis, _bucklingAnalysis: the titles of the node output of a mode
ModeNodeOutputTitles ==
    << "Displacement>Displacement in X", "Displacement>Displacement in Y",
       "Displacement>Displacement in Z", "Displacement>Magnitude of Displacement" >>

\* a result field: one value for every node of the mesh.  The values are those of the
\* numerical kernels; here every value of a field is zero
Fields(titles, msh) == [k \in 1 .. Len(titles) |-> <<titles[k], Zeros(msh.nodeCount)>>]

\* the arguments of the writeNextFrame calls of a driver that extracted the given number
\* of modes (frames, for the static driver, is the two frames it always writes)
DriverFrames(kind, msh, frames) ==
    CASE kind = "static" ->
             << Frame("Increment 0: Time = 0.0", msh, <<>>, <<>>),
                Frame("Increment 1: Time = 1.0", msh, Fields(StaticNodeOutputTitles, msh),
                      << <<"General>Time", 1>>, <<"General>Residual", 0>>,
                         <<"General>Strain Energy", 0>> >>) >>
      [] kind = "frequency" ->
             [i \in 1 .. frames |->
                 Frame("Mode " \o ToString(i) \o ": Frequency = +0.000E+00", msh,
                       Fields(ModeNodeOutputTitles, msh),
                       << <<"General>Eigenvalue", 0>>, <<"General>Frequency", 0>>,
                          <<"General>Residual", 0>> >>)]
      [] kind = "buckling" ->
             [i \in 1 .. frames |->
                 Frame("Mode " \o ToString(i) \o ": Eigenvalue = +0.000E+00", msh,
                       Fields(ModeNodeOutputTitles, msh),
                       << <<"General>Eigenvalue", 0>>, <<"General>Residual", 0>> >>)]

\* odb.writeNextFrame for each frame in turn
RECURSIVE WriteFrames(_, _, _)
WriteFrames(files, self, frames) ==
    IF frames = <<>> THEN files
    ELSE LET written == writeNextFrame(files, self, Head(frames).description,
                                       Head(frames).mesh, Head(frames).nodeOutput,
                                       Head(frames).globalOutput)
         IN WriteFrames(written.fs, written.odb, Tail(frames))

\* a driver that opens the .out file without replace
DriverOutput_appended(file, kind, msh, frames) ==
    LET opened == ODB([path \in {"job.out"} |-> file], "job.out", "write", FALSE)
    IN WriteFrames(opened.fs, opened.odb, DriverFrames(kind, msh, frames))["job.out"]

\* the .out file a driver leaves: odb = ODB(_outFilePath, mode="write", replace=True),
\* then one writeNextFrame for each frame
DriverOutput(file, kind, msh, frames) ==
    LET opened == ODB([path \in {"job.out"} |-> file], "job.out", "write", TRUE)
    IN WriteFrames(opened.fs, opened.odb, DriverFrames(kind, msh, frames))["job.out"]

Completed(frames) == [raised |-> None, frames |-> frames]

Failed(exception, message, point) ==
    [raised |-> Some(exception), message |-> message, point |-> point]

\* _staticAnalysis, _frequencyAnalysis, _bucklingAnalysis: how the driver ends.  The
\* stiffness matrix is assembled first and SparseCSR rejects an empty block; native
\* is what the first native solver does; speigen rejects k0 outside 1 .. rowCount
\* and returns the eigenpairs the native eigensolver has found, found of them
Driver(kind, msh, k0, native, found) ==
    LET badK0 == k0 < 1 \/ k0 > msh.activeDOFCount
        empty == Failed(ValueError, "zero-size array to reduction operation minimum which has no identity", "assembly")
        external == Failed(RuntimeError, "external computational error",
                           IF kind = "frequency" THEN "eigensolver" ELSE "solver")
        invalid == Failed(ValueError, "invalid value for 'k0'", "eigensolver")
    IN IF assembleMatrixRaises(msh.elements) THEN empty
       ELSE CASE kind = "static" ->
                     IF native = "RuntimeError" THEN external ELSE Completed(2)
              [] kind = "frequency" ->
                     IF badK0 THEN invalid
                     ELSE IF native = "RuntimeError" THEN external ELSE Completed(found)
              [] kind = "buckling" ->
                     IF native = "RuntimeError" THEN external
                     ELSE IF badK0 THEN invalid ELSE Completed(found)

Aborts_onWarnings(errors, warnings) == Len(errors) + Len(warnings) > 0

\* if errorCount > 0: ... return
Aborts(errors, warnings) == Len(errors) > 0

-----------------------------------------------------------------------------
(* A calling script: it completes a model database, then validates it      *)
(* (checkMDB) or runs it (solve)                                           *)

Model(sets, surfaces, concentrated, tractions, pressure, body, acceleration, bcs) ==
    [nodeSets |-> sets, surfaceSets |-> surfaces, concentratedLoads |-> concentrated,
     surfaceTractions |-> tractions, pressures |-> pressure, bodyLoads |-> body,
     accelerations |-> acceleration, boundaryConditions |-> bcs]

\* a support and nothing else
CleanModel ==
    Model(<< <<"A", NodeSet({0, 1})>> >>, <<>>, <<>>, <<>>, <<>>, <<>>, <<>>,
          << <<"fix", BoundaryCondition("A", Some(0), Some(0), None)>> >>)

\* loads of every kind and a prescribed displacement that is not zero
LoadedModel ==
    Model(<< <<"A", NodeSet({0, 1})>>, <<"B", NodeSet({2, 3})>> >>,
          << <<"S", << <<1, 1>> >> >> >>,
          << <<"P", VectorLoad("B", 1, 0, 0)>> >>,
          << <<"t", VectorLoad("S", 0, 1, 0)>> >>,
          << <<"p", Pressure("S", 1)>> >>,
          << <<"b", VectorLoad("ES1", 1, 0, 0)>> >>,
          << <<"g", VectorLoad("ES1", 0, -1, 0)>> >>,
          << <<"move", BoundaryCondition("A", Some(1), Some(0), None)>> >>)

\* what the checks warn about: empty sets, null loads, components along Z, no DOFs
SloppyModel ==
    Model(<< <<"A", NodeSet({0, 1})>>, <<"E", NodeSet({})>> >>,
          << <<"S", <<>> >> >>,
          << <<"P", VectorLoad("A", 0, 0, 0)>> >>,
          << <<"t", VectorLoad("S", 0, 0, 1)>> >>,
          <<>>, <<>>, <<>>,
          << <<"fix", BoundaryCondition("A", Some(0), Some(0), Some(0))>>,
             <<"free", BoundaryCondition("E", None, None, None)>> >>)

\* what the checks reject: indices outside the mesh, regions that do not exist
BrokenModel ==
    Model(<< <<"A", NodeSet({0, 9})>> >>, <<>>, <<>>, <<>>,
          << <<"p", Pressure("S", 0)>> >>, <<>>, <<>>,
          << <<"fix", BoundaryCondition("Z", Some(0), None, None)>> >>)

Models == {CleanModel, LoadedModel, SloppyModel, BrokenModel}

\* the .out file before the run: none, or the one an earlier run has left
OutFiles == {Absent, Stale}

\* the script has built the mesh and one of the models; element sets, materials and
\* sections are still to come
Scripted(models) ==
    /\ mesh \in Meshes
    /\ \E model \in models :
          /\ nodeSets = model.nodeSets
          /\ surfaceSets = model.surfaceSets
          /\ concentratedLoads = model.concentratedLoads
          /\ surfaceTractions = model.surfaceTractions
          /\ pressures = model.pressures
          /\ bodyLoads = model.bodyLoads
          /\ accelerations = model.accelerations
          /\ boundaryConditions = model.boundaryConditions
    /\ elementSets = <<>>
    /\ materials = <<>>
    /\ sections = <<>>
    /\ args = Unset
    /\ report = Unset
    /\ log = <<>>
    /\ outFile \in OutFiles
    /\ pc = "populate"
    /\ Ub = Unset
    /\ assembled = Unset
    /\ CsrIdle
    /\ IoIdle

InitSolve == Scripted(Models)

loadVars == <<surfaceSets, concentratedLoads, surfaceTractions, pressures, bodyLoads,
              accelerations>>

numVars == <<Ub, assembled, coo, csr>>

\* MDB.elementSet: a name in use raises ValueError and changes nothing
elementSet(names, choices) ==
    /\ pc = "populate"
    /\ \E name \in names :
          IF name \in Keys(elementSets)
          THEN UNCHANGED elementSets
          ELSE \E indices \in choices :
                   elementSets' = Append(elementSets, <<name, ElementSet(indices)>>)
    /\ UNCHANGED <<mesh, nodeSets, boundaryConditions, loadVars, materials, sections,
                   runVars, pc, numVars, ioVars>>

\* MDB.material
material(names, youngs, poissons, densities) ==
    /\ pc = "populate"
    /\ \E name \in names :
          IF name \in Keys(materials)
          THEN UNCHANGED materials
          ELSE \E young \in youngs, poisson \in poissons, density \in densities :
                   materials' = Append(materials, <<name, Material(young, poisson, density)>>)
    /\ UNCHANGED <<mesh, nodeSets, boundaryConditions, loadVars, elementSets, sections,
                   runVars, pc, numVars, ioVars>>

\* MDB.section, with the default thickness and integration
section(names, regions, materialNames, types) ==
    /\ pc = "populate"
    /\ \E name \in names :
          IF name \in Keys(sections)
          THEN UNCHANGED sections
          ELSE \E region \in regions, mat \in materialNames, type \in types :
                   sections' = Append(sections,
                                      <<name, Section(region, mat, type, 1, FALSE)>>)
    /\ UNCHANGED <<mesh, nodeSets, boundaryConditions, loadVars, elementSets, materials,
                   runVars, pc, numVars, ioVars>>

\* the values a run reads from its environment: the package version, the clock
Versions == {"1.0.0"}

Clock == {[date |-> "2024-01-01", time |-> "12:00:00"]}

Elapsed == {"0.001"}

\* the k0 and processes arguments of solve
K0s == {2, 10}

ProcessCounts == {1, 2}

\* solve, to the model database checks: the log file is replaced, the general info logged
SolveBegin ==
    /\ pc = "populate"
    /\ \E analysisType \in Analyses, k0 \in K0s, processes \in ProcessCounts,
          version \in Versions, now \in Clock :
          /\ args' = [analysis |-> analysisType, k0 |-> k0, processes |-> processes]
          /\ log' = Banner(version, now) \o GeneralInfo(analysisType, processes)
    /\ pc' = "checking"
    /\ UNCHANGED <<mesh, nodeSets, boundaryConditions, modelVars, report, outFile, numVars, ioVars>>

\* solve: errors, warnings = val.checkMDB(mdb, analysis)
CheckModel ==
    /\ pc = "checking"
    /\ report' = checkMDB(MDB, args.analysis)
    /\ log' = log \o << "MODEL DATABASE CHECKS", "---------------------" >>
    /\ pc' = "reporting"
    /\ UNCHANGED <<mesh, nodeSets, boundaryConditions, modelVars, args, outFile, numVars, ioVars>>

\* solve: the warnings, the errors and the summary line are logged
ReportChecks ==
    /\ pc = "reporting"
    /\ log' = log \o ChecksReport(report.errors, report.warnings)
    /\ pc' = "checked"
    /\ UNCHANGED <<mesh, nodeSets, boundaryConditions, modelVars, args, report, outFile,
                   numVars, ioVars>>

\* solve: abort on errors; the finally clause logs the final messages
Abort ==
    /\ pc = "checked"
    /\ Aborts(report.errors, report.warnings)
    /\ \E elapsed \in Elapsed :
          log' = log \o << "Solver has stopped prematurely due to errors (see above)" >>
                     \o FinalLog(elapsed)
    /\ pc' = "returned"
    /\ UNCHANGED <<mesh, nodeSets, boundaryConditions, modelVars, args, report, outFile,
                   numVars, ioVars>>

\* solve: general pre-processing; an exception is logged and raised again
PreProcess ==
    /\ pc = "checked"
    /\ ~Aborts(report.errors, report.warnings)
    /\ \E failure \in {buildDOFsRaises(mesh, boundaryConditions, nodeSets)},
          assigned \in {assignElementProperties(
                            buildDOFs(mesh, boundaryConditions, nodeSets),
                            sections, materials, elementSets)},
          elapsed \in Elapsed :
             IF failure # None
             THEN /\ mesh' = mesh
                  /\ log' = log \o << "PRE-PROCESSING", "--------------" >>
                                \o ExceptionLog(failure[1], "_buildDOFs")
                                \o FinalLog(elapsed)
                  /\ pc' = "raised"
             ELSE IF assigned.raised # None
             THEN /\ mesh' = assigned.mesh
                  /\ log' = log \o << "PRE-PROCESSING", "--------------" >>
                                \o ExceptionLog(assigned.raised[1], "_assignElementProperties")
                                \o FinalLog(elapsed)
                  /\ pc' = "raised"
             ELSE /\ mesh' = assigned.mesh
                  /\ log' = log \o PreProcessingLog(assigned.mesh)
                  /\ pc' = "preprocessed"
    /\ UNCHANGED <<nodeSets, boundaryConditions, modelVars, args, report, outFile, numVars, ioVars>>

\* solve: perform the analysis, log the final messages
RunAnalysis ==
    /\ pc = "preprocessed"
    /\ LET kind == StripLower(args.analysis)
       IN \E elapsed \in Elapsed, native \in {"completed", "RuntimeError"},
             found \in 0 .. Max({0, args.k0}) :
             IF kind \notin {"static", "frequency", "buckling"}
             THEN /\ log' = log \o ExceptionLog(ValueError, "undefined analysis type: '"
                                                            \o args.analysis \o "'")
                                \o FinalLog(elapsed)
                  /\ pc' = "raised"
                  /\ UNCHANGED outFile
             ELSE \E end \in {Driver(kind, mesh, args.k0, native, found)} :
                     IF end.raised # None
                     THEN /\ log' = log \o AnalysisTitle(kind)
                                        \o SubSeq(DriverLog(kind, 0), 1,
                                                  LoggedBefore(kind, end.point))
                                        \o ExceptionLog(end.raised[1], end.message)
                                        \o FinalLog(elapsed)
                          /\ pc' = "raised"
                          /\ UNCHANGED outFile
                     ELSE /\ log' = log \o AnalysisTitle(kind)
                                        \o DriverLog(kind, end.frames)
                                        \o << "", "Successful run" >>
                                        \o FinalLog(elapsed)
                          /\ pc' = "returned"
                          /\ outFile' = DriverOutput(outFile, kind, mesh, end.frames)
    /\ UNCHANGED <<mesh, nodeSets, boundaryConditions, modelVars, args, report, numVars, ioVars>>

\* the names and the values the scripts draw their arguments from
OneRegionName == {"ES1"}

RegionNames == {"ES1", "ES2"}

OneMaterialName == {"steel"}

MaterialNames == {"steel", "foam"}

OneSectionName == {"s1"}

SectionNames == {"s1", "s2"}

Youngs == {1}

Poissons == {0}

Densities == {0, 1}

PositiveDensities == {1}

SectionTypeInputs == {"PlaneStress", "General"}

PlaneSectionTypes == {"PlaneStress"}

BothOrFirst == {{0, 1}, {0}}

BothFirstOrBeyond == {{0, 1}, {0}, {1, 2}}

EachBothOrBeyond == {{0, 1}, {0}, {1}, {1, 2}}

DefineRegion == elementSet(OneRegionName, BothOrFirst)

DefineMaterial == material(OneMaterialName, Youngs, Poissons, Densities)

AssignSection == section(OneSectionName, OneRegionName, OneMaterialName, SectionTypeInputs)

NextSolve ==
    \/ DefineRegion
    \/ DefineMaterial
    \/ AssignSection
    \/ SolveBegin
    \/ CheckModel
    \/ ReportChecks
    \/ Abort
    \/ PreProcess
    \/ RunAnalysis

SpecSolve == InitSolve /\ [][NextSolve]_vars

\* the positions of solve from which the interpreter executes a next statement
Running == {"checking", "reporting", "checked", "preprocessed"}

\* solve is one sequential call: from each position in Running exactly one of
\* CheckModel, ReportChecks, Abort, PreProcess and RunAnalysis is enabled, and
\* each of them moves pc, so "the call goes on" is "pc moves"
Proceeds ==
    /\ pc \in Running
    /\ pc' \in {"reporting", "checked", "preprocessed", "returned", "raised"}
    /\ pc' # pc

\* a run that has begun goes on to its end
SpecSolveLive == SpecSolve /\ WF_pc(Proceeds)

-----------------------------------------------------------------------------
(* A calling script that validates its model database: checkMDB alone      *)

AddElementSet == elementSet(RegionNames, BothFirstOrBeyond)

AddMaterial == material(MaterialNames, Youngs, Poissons, Densities)

AddSection == section(SectionNames, RegionNames, OneMaterialName, SectionTypeInputs)

InitValidate == Scripted({CleanModel, LoadedModel})

\* errors, warnings = checkMDB(mdb, analysis)
CheckMDB ==
    /\ pc = "populate"
    /\ \E analysisType \in {"static", "frequency", " Frequency "} :
          /\ args' = [analysis |-> analysisType]
          /\ report' = checkMDB(MDB, analysisType)
    /\ pc' = "validated"
    /\ UNCHANGED <<mesh, nodeSets, boundaryConditions, modelVars, log, outFile, numVars, ioVars>>

NextValidate ==
    \/ AddElementSet
    \/ AddMaterial
    \/ AddSection
    \/ CheckMDB

SpecValidate == InitValidate /\ [][NextValidate]_vars

-----------------------------------------------------------------------------
(* A calling script that validates its model database and, when checkMDB   *)
(* returns no errors, calls _buildDOFs and _assignElementProperties, as    *)
(* solve does                                                              *)

RegionInputs == elementSet(RegionNames, EachBothOrBeyond)

MaterialInputs == material(MaterialNames, Youngs, Poissons, PositiveDensities)

SectionInputs == section(SectionNames, RegionNames, MaterialNames, PlaneSectionTypes)

InitPrepare == Scripted({CleanModel, BrokenModel}) /\ mesh = PlaneMesh /\ outFile = Absent

\* mdb._buildDOFs()
PrepareDOFs ==
    /\ pc = "validated"
    /\ report.errors = <<>>
    /\ \E failure \in {buildDOFsRaises(mesh, boundaryConditions, nodeSets)} :
          IF failure # None
          THEN /\ pc' = "raised"
               /\ call' = [op |-> "_buildDOFs", raised |-> failure]
               /\ UNCHANGED mesh
          ELSE /\ pc' = "numbered"
               /\ call' = [op |-> "_buildDOFs", raised |-> None]
               /\ mesh' = buildDOFs(mesh, boundaryConditions, nodeSets)
    /\ UNCHANGED <<nodeSets, boundaryConditions, modelVars, runVars, numVars, fs, odb, passed>>

\* mdb._assignElementProperties()
PrepareProperties ==
    /\ pc = "numbered"
    /\ \E assigned \in {assignElementProperties(mesh, sections, materials, elementSets)} :
          /\ pc' = IF assigned.raised # None THEN "raised" ELSE "prepared"
          /\ call' = [op |-> "_assignElementProperties", raised |-> assigned.raised]
          /\ mesh' = assigned.mesh
    /\ UNCHANGED <<nodeSets, boundaryConditions, modelVars, runVars, numVars, fs, odb, passed>>

NextPrepare ==
    \/ RegionInputs
    \/ MaterialInputs
    \/ SectionInputs
    \/ CheckMDB
    \/ PrepareDOFs
    \/ PrepareProperties

SpecPrepare == InitPrepare /\ [][NextPrepare]_vars

-----------------------------------------------------------------------------
(* AbaqusReader: the nodes, the elements and the sets of an input file     *)

LowerLetters == "abcdefghijklmnopqrstuvwxyz"

UpperLetters == "ABCDEFGHIJKLMNOPQRSTUVWXYZ"

UpperCh(c) ==
    IF \E i \in 1 .. Len(LowerLetters) : Ch(LowerLetters, i) = c
    THEN Ch(UpperLetters, CHOOSE i \in 1 .. Len(LowerLetters) : Ch(LowerLetters, i) = c)
    ELSE c

\* str.upper()
RECURSIVE upper(_)
upper(text) ==
    IF text = "" THEN "" ELSE UpperCh(Ch(text, 1)) \o upper(SubSeq(text, 2, Len(text)))

\* str.replace(old, "") for an old of one character
RECURSIVE removed(_, _)
removed(text, old) ==
    IF text = "" THEN ""
    ELSE (IF Ch(text, 1) = old THEN "" ELSE Ch(text, 1)) \o removed(SubSeq(text, 2, Len(text)), old)

\* AbaqusReader.cleanLines: whitespace removed, upper case, no empty line, no comment
cleanLines(lines) ==
    LET Meaningful(line) == line # "" /\ ~startswith(line, "**")
    IN SelectSeq([k \in 1 .. Len(lines) |-> upper(removed(strip(lines[k]), " "))], Meaningful)

\* the positions at which the marker occurs in the text
Positions(text, marker) ==
    {i \in 1 .. Len(text) : i + Len(marker) - 1 <= Len(text)
                            /\ SubSeq(text, i, i + Len(marker) - 1) = marker}

\* text.split(marker)[1], for a text that holds the marker
SecondPiece(text, marker, starts) ==
    SubSeq(text, Min(starts) + Len(marker),
           IF \E i \in starts : i >= Min(starts) + Len(marker)
           THEN Min({i \in starts : i >= Min(starts) + Len(marker)}) - 1
           ELSE Len(text))

\* line.split(marker)[1].split(",")[0]
ValueOf(line, marker) == split(SecondPiece(line, marker, Positions(line, marker)), ",", -1)[1]

\* [x for x in line.split(",")[from:] if x]
LineFields(line, from) ==
    LET NonEmpty(x) == x # ""
    IN SelectSeq(SubSeq(split(line, ",", -1), from + 1, Len(split(line, ",", -1))), NonEmpty)

IntsOf(fields) == [k \in 1 .. Len(fields) |-> int(fields[k]).value]

\* [int(x) for x in line.split(",")[from:] if x]
Numbers(line, from) == IntsOf(LineFields(line, from))

Keyword(line) == split(line, ",", -1)[1]

\* the connectivity of the element that starts at line k: a line that ends with a comma
\* is continued on the next line, which has no label
RECURSIVE ReadConnectivity(_, _, _)
Continued(own, rest) == [connectivity |-> own \o rest.connectivity, last |-> rest.last]

ReadConnectivity(lines, k, from) ==
    IF Ch(lines[k], Len(lines[k])) = "," /\ k < Len(lines)
    THEN Continued([q \in 1 .. Len(Numbers(lines[k], from)) |-> Numbers(lines[k], from)[q] - 1],
                   ReadConnectivity(lines, k + 1, 0))
    ELSE [connectivity |->
              [q \in 1 .. Len(Numbers(lines[k], from)) |-> Numbers(lines[k], from)[q] - 1],
          last |-> k]

\* AbaqusReader.getElements: the pairs (third-party type, connectivity), in file order;
\* the label of an element is skipped
RECURSIVE ScanElements(_, _, _, _)
RECURSIVE YieldElement(_, _, _)
YieldElement(lines, elementType, read) ==
    << <<elementType, read.connectivity>> >>
        \o ScanElements(lines, read.last + 1, TRUE, elementType)

ScanElements(lines, k, readData, elementType) ==
    IF k > Len(lines) THEN <<>>
    ELSE IF readData /\ Ch(lines[k], 1) # "*"
    THEN YieldElement(lines, elementType, ReadConnectivity(lines, k, 1))
    ELSE IF Keyword(lines[k]) = "*ELEMENT"
    THEN ScanElements(lines, k + 1, TRUE, ValueOf(lines[k], "TYPE="))
    ELSE ScanElements(lines, k + 1, FALSE, elementType)

AbaqusReader_getElements(files, filePath) ==
    ScanElements(cleanLines(files[filePath].lines), 1, FALSE, "")

\* AbaqusReader.getNodes: the coordinates after the label, padded with 0.0
RECURSIVE ScanNodes(_, _, _)
Coordinates3(fields) ==
    [d \in 1 .. 3 |-> IF d <= Len(fields) THEN float(fields[d]).value ELSE 0]

ScanNodes(lines, k, readData) ==
    IF k > Len(lines) THEN <<>>
    ELSE IF readData /\ Ch(lines[k], 1) # "*"
    THEN <<Coordinates3(LineFields(lines[k], 1))>> \o ScanNodes(lines, k + 1, TRUE)
    ELSE ScanNodes(lines, k + 1, Keyword(lines[k]) = "*NODE")

AbaqusReader_getNodes(files, filePath) ==
    ScanNodes(cleanLines(files[filePath].lines), 1, FALSE)

\* range(first, stop, inc) for a positive inc
Range(first, stop, inc) ==
    [q \in 1 .. (IF stop > first THEN (stop - first + inc - 1) \div inc ELSE 0) |->
        first + (q - 1) * inc]

\* the indices a data line of a set adds: label - 1, or the range of a generated set
SetData(params, generate) ==
    IF generate
    THEN Range(params[1] - 1, (params[2] - 1) + (IF Len(params) >= 3 THEN params[3] ELSE 1),
               IF Len(params) >= 3 THEN params[3] ELSE 1)
    ELSE [q \in 1 .. Len(params) |-> params[q] - 1]

QualifiedName(instanceName, partName, name) ==
    (IF instanceName # "" THEN instanceName \o "."
     ELSE IF partName # "" THEN partName \o "."
     ELSE "")
        \o name

SetName(line, partName) ==
    QualifiedName(IF Positions(line, ",INSTANCE") # {} THEN ValueOf(line, "INSTANCE=") ELSE "",
                  partName, ValueOf(line, "SET="))

\* AbaqusReader._getSets: the pairs (name, indices) of the sets of the keyword
RECURSIVE ScanSets(_, _, _, _)
ScanSets(lines, k, keyword, state) ==
    IF k > Len(lines)
    THEN IF state.readData THEN << <<state.setName, state.indices>> >> ELSE <<>>
    ELSE IF state.readData /\ Ch(lines[k], 1) = "*"
    THEN << <<state.setName, state.indices>> >>
             \o ScanSets(lines, k, keyword, [state EXCEPT !.readData = FALSE])
    ELSE IF state.readData
    THEN ScanSets(lines, k + 1, keyword,
                  [state EXCEPT !.indices = @ \o SetData(Numbers(lines[k], 0), state.generate)])
    ELSE IF Keyword(lines[k]) = keyword
    THEN ScanSets(lines, k + 1, keyword,
                  [state EXCEPT !.readData = TRUE,
                                !.generate = Positions(lines[k], ",GENERATE") # {},
                                !.setName = SetName(lines[k], state.partName),
                                !.indices = <<>>])
    ELSE IF Keyword(lines[k]) = "*PART"
    THEN ScanSets(lines, k + 1, keyword, [state EXCEPT !.partName = ValueOf(lines[k], "NAME=")])
    ELSE IF Keyword(lines[k]) = "*ENDPART"
    THEN ScanSets(lines, k + 1, keyword, [state EXCEPT !.partName = ""])
    ELSE ScanSets(lines, k + 1, keyword, state)

AbaqusReader_getSets(files, filePath, keyword) ==
    ScanSets(cleanLines(files[filePath].lines), 1, keyword,
             [readData |-> FALSE, generate |-> FALSE, setName |-> "", partName |-> "",
              indices |-> <<>>])

\* ElementTypes.from3rdParty("Abaqus", elementType): None for an unsupported type
from3rdParty(elementType) ==
    CASE elementType \in {"CPS3", "CPE3", "CAX3"} -> Some("Plane3")
      [] elementType \in {"CPS4", "CPE4", "CAX4", "CPS4R", "CPE4R", "CAX4R"} -> Some("Plane4")
      [] elementType \in {"CPS6", "CPE6", "CAX6"} -> Some("Plane6")
      [] elementType \in {"CPS8", "CPE8", "CAX8", "CPS8R", "CPE8R", "CAX8R"} -> Some("Plane8")
      [] elementType = "C3D4" -> Some("Volume4")
      [] elementType = "C3D6" -> Some("Volume6")
      [] elementType \in {"C3D8", "C3D8R"} -> Some("Volume8")
      [] elementType = "C3D10" -> Some("Volume10")
      [] elementType = "C3D15" -> Some("Volume15")
      [] elementType \in {"C3D20", "C3D20R"} -> Some("Volume20")
      [] OTHER -> None

\* Mesh.fromReader: the elements of supported types, converted, in file order
mapAndFilterElementTypes(elements) ==
    LET Supported(element) == from3rdParty(element[1]) # None
        kept == SelectSeq(elements, Supported)
    IN [k \in 1 .. Len(kept) |-> <<from3rdParty(kept[k][1])[1], kept[k][2]>>]

fromReader(files, filePath) ==
    Mesh(AbaqusReader_getNodes(files, filePath),
         mapAndFilterElementTypes(AbaqusReader_getElements(files, filePath)))

\* mdb._nodeSets[name] = NodeSet(indices), for the sets in file order
RECURSIVE ImportSets(_, _)
ImportSets(sets, pairs) ==
    IF pairs = <<>> THEN sets
    ELSE ImportSets(Put(sets, pairs[1][1], SortedTuple(Elems(pairs[1][2]))), Tail(pairs))

\* os.path.splitext(filePath)[1].lower() == ".inp", for a path without directories
IsInp(filePath) ==
    /\ Positions(filePath, ".") # {}
    /\ Max(Positions(filePath, ".")) > 1
    /\ upper(SubSeq(filePath, Max(Positions(filePath, ".")), Len(filePath))) = ".INP"

\* MDB.fromFile: the model database, or the exception raised
fromFileBuilt(files, filePath, built) ==
    IF built.raised # None THEN built
    ELSE Returns([mesh |-> built.value,
                  nodeSets |-> ImportSets(<<>>, AbaqusReader_getSets(files, filePath, "*NSET")),
                  elementSets |->
                      ImportSets(<<>>, AbaqusReader_getSets(files, filePath, "*ELSET"))])

fromFile(files, filePath) ==
    IF ~IsInp(filePath) THEN Raises(ValueError)
    ELSE fromFileBuilt(files, filePath, fromReader(files, filePath))

-----------------------------------------------------------------------------
(* A calling script that imports an input file: four nodes in the plane,   *)
(* three elements labelled 1, 2, 3, each of a plane type, of a type that   *)
(* is not supported or of a volume type, and one element set               *)

ImportedTypes == {"CPS3", "T3D2", "C3D4"}

\* the data line of the element of the label and the type
ElementLine(label, type) ==
    ToString(label) \o ", " \o
        (CASE type = "T3D2" -> "1, 2"
           [] type = "C3D4" -> "1, 2, 3, 4"
           [] OTHER -> <<"1, 2, 3", "2, 4, 3", "1, 3, 4">>[label])

InpFile(types, labels, generate) ==
    File(<< "** a part", "*Node", "1, 0.0, 0.0", "2, 1.0, 0.0", "3, 0.0, 1.0", "4, 1.0, 1.0" >>
         \o Flatten([p \in 1 .. Len(types) |->
                        << "*Element, type=" \o types[p], ElementLine(p, types[p]) >>])
         \o << "*Nset, nset=corner", "1," >>
         \o (IF generate
             THEN << "*Elset, elset=picked, generate",
                     ToString(Min(labels)) \o ", " \o ToString(Max(labels)) \o ", 1" >>
             ELSE << "*Elset, elset=picked",
                     join(", ", [q \in 1 .. Cardinality(labels) |->
                                    ToString(SortedTuple(labels)[q])]) >>))

InpPaths == {"part.inp", "part.INP", "part.msh"}

InitImport ==
    /\ DofIdle
    /\ RunIdle
    /\ Ub = Unset
    /\ assembled = Unset
    /\ CsrIdle
    /\ odb = Unset
    /\ pc = "idle"
    /\ \E types \in [1 .. 3 -> ImportedTypes], labels \in (SUBSET (1 .. 3)) \ {{}},
          path \in InpPaths, generate \in BOOLEAN :
          /\ passed = [types |-> types, labels |-> labels, path |-> path,
                       generate |-> generate]
          /\ fs = [p \in {path} |-> InpFile(types, labels, generate)]
    /\ call = [op |-> "none"]

\* mdb = MDB.fromFile(path)
FromFile ==
    /\ pc = "idle"
    /\ \E made \in {fromFile(fs, passed.path)} :
          /\ call' = [op |-> "fromFile", raised |-> made.raised]
          /\ pc' = IF made.raised = None THEN "populate" ELSE "raised"
          /\ mesh' = IF made.raised = None THEN made.value.mesh ELSE mesh
          /\ nodeSets' = IF made.raised = None THEN made.value.nodeSets ELSE nodeSets
          /\ elementSets' = IF made.raised = None THEN made.value.elementSets ELSE elementSets
    /\ UNCHANGED <<boundaryConditions, surfaceSets, materials, sections, concentratedLoads,
                   surfaceTractions, pressures, bodyLoads, accelerations, runVars, numVars,
                   fs, odb, passed>>

NextImport == FromFile

SpecImport == InitImport /\ [][NextImport]_vars

-----------------------------------------------------------------------------
(* gmsh.clean: the rewriting of an input file generated by Gmsh            *)

SUPPORTED_ELEMENT_TYPES ==
    << "CPS3", "CPE3", "CAX3", "CPS4", "CPE4", "CAX4", "CPS4R", "CPE4R", "CAX4R", "CPS6",
       "CPE6", "CAX6", "CPS8", "CPE8", "CAX8", "CPS8R", "CPE8R", "CAX8R", "C3D4", "C3D6",
       "C3D8", "C3D8R", "C3D10", "C3D15", "C3D20", "C3D20R" >>

\* k: max number of indices per line
IndicesPerLine == 10

\* the variables of clean before the first line is read; elements holds the elements
\* of the supported types in the order they are read
CleanStart ==
    [setType |-> "", setName |-> "", elementType |-> "", nodes |-> <<>>, elements |-> <<>>,
     sets |-> [setType \in {"node-set", "element-set"} |-> <<>>], action |-> "pass"]

\* case "read-command"
ReadCommand(line, state) ==
    CASE Keyword(line) = "*NODE" -> [state EXCEPT !.action = "read-node"]
      [] Keyword(line) = "*ELEMENT" ->
            [state EXCEPT !.elementType = ValueOf(line, "TYPE="),
                          !.action = IF ValueOf(line, "TYPE=") \in Elems(SUPPORTED_ELEMENT_TYPES)
                                     THEN "read-element" ELSE "pass"]
      [] Keyword(line) \in {"*NSET", "*ELSET"} ->
            [state EXCEPT !.setType = IF startswith(line, "*NSET") THEN "node-set"
                                      ELSE "element-set",
                          !.setName = ValueOf(line, "SET="),
                          !.action = "read-set"]
      [] OTHER -> [state EXCEPT !.action = "pass"]

\* case "read-node"
ReadNode(line, state) ==
    [state EXCEPT !.action = "read-node",
                  !.nodes = Append(@, [old |-> int(Keyword(line)).value, new |-> -1,
                                       coordinates |-> Coordinates3(LineFields(line, 1))])]

\* the labels of the nodes of the element that starts at line k, continued on the next
\* line after a line that ends with a comma
RECURSIVE ReadLabels(_, _, _)
ReadLabels(lines, k, from) ==
    IF Ch(lines[k], Len(lines[k])) = "," /\ k < Len(lines)
    THEN Continued(Numbers(lines[k], from), ReadLabels(lines, k + 1, 0))
    ELSE [connectivity |-> Numbers(lines[k], from), last |-> k]

\* case "read-set"
ReadSet(line, state, known) ==
    [state EXCEPT !.action = "read-set",
                  !.sets[state.setType] =
                      Put(@, state.setName,
                          (IF state.setName \in Keys(known) THEN Get(known, state.setName)
                           ELSE <<>>) \o Numbers(line, 0))]

\* for line in (lines := AbaqusReader.cleanLines(file))
RECURSIVE CleanRead(_, _, _)
RECURSIVE CleanLine(_, _, _, _)
RECURSIVE CleanElement(_, _, _, _)
CleanElement(lines, state, oldIndex, read) ==
    CleanRead(lines, read.last + 1,
              [state EXCEPT !.action = "read-element",
                            !.elements = Append(@, [type |-> state.elementType, old |-> oldIndex,
                                                    new |-> -1,
                                                    connectivity |-> read.connectivity])])

CleanLine(lines, k, state, action) ==
    CASE action = "read-command" -> CleanRead(lines, k + 1, ReadCommand(lines[k], state))
      [] action = "read-node" -> CleanRead(lines, k + 1, ReadNode(lines[k], state))
      [] action = "read-element" ->
            CleanElement(lines, state, int(Keyword(lines[k])).value, ReadLabels(lines, k, 1))
      [] action = "read-set" ->
            CleanRead(lines, k + 1, ReadSet(lines[k], state, state.sets[state.setType]))
      [] OTHER -> CleanRead(lines, k + 1, state)

CleanRead(lines, k, state) ==
    IF k > Len(lines) THEN state
    ELSE CleanLine(lines, k, state,
                   IF startswith(lines[k], "*") THEN "read-command" ELSE state.action)

\* nodes.sort(key=lambda x: x[0][0]): a stable sort by the old label
InsertNode(sorted, node) ==
    LET before == Cardinality({q \in 1 .. Len(sorted) : sorted[q].old <= node.old})
    IN SubSeq(sorted, 1, before) \o <<node>> \o SubSeq(sorted, before + 1, Len(sorted))

RECURSIVE SortNodes(_)
SortNodes(nodes) ==
    IF nodes = <<>> THEN <<>>
    ELSE InsertNode(SortNodes(SubSeq(nodes, 1, Len(nodes) - 1)), nodes[Len(nodes)])

\* chain(*elements.values()): the elements type by type, in the order of the types
Chained(elements) ==
    Flatten([t \in 1 .. Len(SUPPORTED_ELEMENT_TYPES) |->
                LET OfType(element) == element.type = SUPPORTED_ELEMENT_TYPES[t]
                IN SelectSeq(elements, OfType)])

\* determine unconnected/unused nodes: nodes[nodeIndex - 1] of a list, where a negative
\* index counts from the end
RECURSIVE MarkUsed(_, _)
MarkAt(nodes, references, position) ==
    IF nodes[position].old # Head(references) THEN Raises(RuntimeError)
    ELSE MarkUsed([nodes EXCEPT ![position].new = -2], Tail(references))

MarkUsed(nodes, references) ==
    IF references = <<>> THEN Returns(nodes)
    ELSE IF Head(references) - 1 >= Len(nodes) \/ Head(references) - 1 < 0 - Len(nodes)
    THEN Raises(IndexError)
    ELSE MarkAt(nodes, references,
                IF Head(references) - 1 >= 0 THEN Head(references)
                ELSE Len(nodes) + Head(references))

\* new node numbering
NumberNodes(nodes) ==
    [q \in 1 .. Len(nodes) |->
        IF nodes[q].new = -2
        THEN [nodes[q] EXCEPT !.new = Cardinality({p \in 1 .. q : nodes[p].new = -2})]
        ELSE nodes[q]]

\* new element numbering
NumberElements(elements) == [q \in 1 .. Len(elements) |-> [elements[q] EXCEPT !.new = q]]

\* {item[0][0]: item[0][1] for item in items}: the last item of a label is kept
Mapping(items) ==
    [label \in {items[q].old : q \in 1 .. Len(items)} |->
        items[Max({q \in 1 .. Len(items) : items[q].old = label})].new]

\* fix element connectivity
FixConnectivity(elements, nodeMapping) ==
    [q \in 1 .. Len(elements) |->
        [elements[q] EXCEPT !.connectivity =
            [i \in 1 .. Len(@) |-> nodeMapping[@[i]]]]]

FixSets_staleKept(sets, mapping) ==
    LET Valid(x) == x # -1
    IN [s \in 1 .. Len(sets) |->
           <<sets[s][1],
             SelectSeq([i \in 1 .. Len(sets[s][2]) |->
                           IF sets[s][2][i] \in DOMAIN mapping THEN mapping[sets[s][2][i]]
                           ELSE sets[s][2][i]],
                       Valid)>>]

\* fix node sets, fix element sets
FixSets(sets, mapping) ==
    LET Valid(x) == x # -1
    IN [s \in 1 .. Len(sets) |->
           <<sets[s][1],
             SelectSeq([i \in 1 .. Len(sets[s][2]) |->
                           IF sets[s][2][i] \in DOMAIN mapping THEN mapping[sets[s][2][i]]
                           ELSE -1],
                       Valid)>>]

\* the lines written for the nodes
NodeLines(nodes) ==
    LET Numbered(node) == node.new > 0
        kept == SelectSeq(nodes, Numbered)
    IN <<"*Node">>
           \o [q \in 1 .. Len(kept) |->
                  str_int(kept[q].new) \o ", " \o str_float(kept[q].coordinates[1]) \o ", "
                      \o str_float(kept[q].coordinates[2]) \o ", "
                      \o str_float(kept[q].coordinates[3])]

\* the lines written for the elements, type by type
ElementLines(elements) ==
    Flatten([t \in 1 .. Len(SUPPORTED_ELEMENT_TYPES) |->
                LET OfType(element) == element.type = SUPPORTED_ELEMENT_TYPES[t] /\ element.new > 0
                    kept == SelectSeq(elements, OfType)
                IN IF \A q \in 1 .. Len(elements) : elements[q].type # SUPPORTED_ELEMENT_TYPES[t]
                   THEN <<>>
                   ELSE <<"*Element, type=" \o SUPPORTED_ELEMENT_TYPES[t]>>
                            \o [q \in 1 .. Len(kept) |->
                                   str_int(kept[q].new) \o ", "
                                       \o join(", ", [i \in 1 .. Len(kept[q].connectivity) |->
                                                         str_int(kept[q].connectivity[i])])]])

\* the lines written for the sets: at most k indices per line, no line for an empty set
SetLines(sets, header) ==
    Flatten([s \in 1 .. Len(sets) |->
                IF Len(sets[s][2]) = 0 THEN <<>>
                ELSE <<header \o sets[s][1]>>
                         \o [c \in 1 .. (Len(sets[s][2]) + IndicesPerLine - 1) \div IndicesPerLine |->
                                join(", ",
                                     [i \in 1 .. Min({IndicesPerLine,
                                                      Len(sets[s][2]) - (c - 1) * IndicesPerLine}) |->
                                         str_int(sets[s][2][(c - 1) * IndicesPerLine + i])])]])

\* with open(filePath, "w") as file
CleanWrite(nodes, elements, nsets, elsets) ==
    File(NodeLines(nodes) \o ElementLines(elements) \o SetLines(nsets, "*Nset, nset=")
             \o SetLines(elsets, "*Elset, elset="))

CleanNumbered(files, filePath, state, nodes, elements) ==
    Returns([files EXCEPT ![filePath] =
                CleanWrite(nodes, FixConnectivity(elements, Mapping(nodes)),
                           FixSets(state.sets["node-set"], Mapping(nodes)),
                           FixSets(state.sets["element-set"], Mapping(elements)))])

CleanMarked(files, filePath, state, marked) ==
    IF marked.raised # None THEN marked
    ELSE CleanNumbered(files, filePath, state, NumberNodes(marked.value),
                       NumberElements(Chained(state.elements)))

CleanSorted(files, filePath, state, nodes) ==
    CleanMarked(files, filePath, state,
                MarkUsed(nodes, Flatten([e \in 1 .. Len(Chained(state.elements)) |->
                                            Chained(state.elements)[e].connectivity])))

\* gmsh.clean(filePath): the files after the call, or the exception raised
clean(files, filePath) ==
    IF ~IsInp(filePath) THEN Raises(ValueError)
    ELSE IF ~isfile(files, filePath) THEN Raises(FileNotFoundError)
    ELSE CleanSorted(files, filePath,
                     CleanRead(cleanLines(files[filePath].lines), 1, CleanStart),
                     SortNodes(CleanRead(cleanLines(files[filePath].lines), 1, CleanStart).nodes))

-----------------------------------------------------------------------------
(* A calling script that cleans a file as Gmsh writes it: five nodes       *)
(* labelled 1 .. 5, three elements labelled 1 .. 3 (each a triangle, a     *)
(* quadrilateral or a line, which is not supported), one node set and one  *)
(* element set                                                             *)

GmshTypes == {"CPS3", "CPS4", "T3D2"}

\* the node labels of the element of the label and the type
GmshConnectivity(label, type) ==
    CASE type = "T3D2" -> << <<1, 2>>, <<2, 4>>, <<4, 5>> >>[label]
      [] type = "CPS4" -> << <<1, 2, 4, 3>>, <<2, 3, 4, 5>>, <<1, 3, 5, 4>> >>[label]
      [] OTHER -> << <<1, 2, 3>>, <<2, 4, 3>>, <<3, 4, 5>> >>[label]

\* the x coordinate of the node of the label; y and z are 0
GmshX(label) == label * 2

\* the data lines of an element: the nodes of a quadrilateral fill two lines
GmshElementLines(label, type) ==
    IF type = "CPS4"
    THEN << ToString(label) \o ", " \o ToString(GmshConnectivity(label, type)[1]) \o ", "
                \o ToString(GmshConnectivity(label, type)[2]) \o ",",
            ToString(GmshConnectivity(label, type)[3]) \o ", "
                \o ToString(GmshConnectivity(label, type)[4]) >>
    ELSE << ToString(label) \o ", "
                \o join(", ", [q \in 1 .. Len(GmshConnectivity(label, type)) |->
                                  ToString(GmshConnectivity(label, type)[q])]) >>

\* the data lines of a set: ten labels per line, each followed by a comma
GmshSetLines(labels) ==
    [c \in 1 .. (Len(labels) + 9) \div 10 |->
        join(" ", [i \in 1 .. Min({10, Len(labels) - (c - 1) * 10}) |->
                      ToString(labels[(c - 1) * 10 + i]) \o ","])]

GmshFile(types, nodeLabels, elementLabels, reversed) ==
    File(<< "*Heading", " mesh.inp", "*NODE" >>
         \o [q \in 1 .. 5 |->
                ToString(IF reversed THEN 6 - q ELSE q) \o ", "
                    \o ToString(GmshX(IF reversed THEN 6 - q ELSE q)) \o ", 0, 0"]
         \o << "******* E L E M E N T S *************" >>
         \o Flatten([p \in 1 .. Len(types) |->
                        << "*ELEMENT, type=" \o types[p] \o ", ELSET=Surface" \o ToString(p) >>
                            \o GmshElementLines(p, types[p])])
         \o << "*ELSET,ELSET=Skin" >> \o GmshSetLines(elementLabels)
         \o << "*NSET,NSET=Edge" >> \o GmshSetLines(nodeLabels))

GmshNodeSets == {<<1, 5>>, <<4, 5>>, <<5>>, <<1, 2, 3, 4, 5, 5, 4, 3, 2, 1, 2, 4>>}

GmshElementSets == {<<1>>, <<2>>, <<3>>, <<1, 3>>, <<3, 2, 1>>}

GmshPaths == {"mesh.inp", "mesh.msh"}

InitClean ==
    /\ DofIdle
    /\ RunIdle
    /\ Ub = Unset
    /\ assembled = Unset
    /\ CsrIdle
    /\ odb = Unset
    /\ pc = "idle"
    /\ \E types \in [1 .. 3 -> GmshTypes], nodeLabels \in GmshNodeSets,
          elementLabels \in GmshElementSets, reversed \in BOOLEAN, path \in GmshPaths :
          /\ passed = [types |-> types, nodeLabels |-> nodeLabels,
                       elementLabels |-> elementLabels, path |-> path]
          /\ fs = [p \in {path} |-> GmshFile(types, nodeLabels, elementLabels, reversed)]
    /\ call = [op |-> "none"]

\* clean(path)
Clean ==
    /\ pc = "idle"
    /\ \E made \in {clean(fs, passed.path)} :
          /\ call' = [op |-> "clean", raised |-> made.raised]
          /\ pc' = IF made.raised = None THEN "cleaned" ELSE "raised"
          /\ fs' = IF made.raised = None THEN made.value ELSE fs
    /\ UNCHANGED <<mesh, nodeSets, boundaryConditions, modelVars, runVars, numVars, odb, passed>>

NextClean == Clean

SpecClean == InitClean /\ [][NextClean]_vars

-----------------------------------------------------------------------------
(* A calling script that populates the model database: every add method of *)
(* the MDB, with names it has used before and names it has not             *)

\* SurfaceSet.__init__: tuple(sorted(set(indices))), the pairs in lexicographic order
RECURSIVE SurfaceSet(_)
SurfaceSet(indices) ==
    IF indices = {} THEN <<>>
    ELSE LET first == CHOOSE p \in indices :
                          \A q \in indices : p[1] < q[1] \/ (p[1] = q[1] /\ p[2] <= q[2])
         IN <<first>> \o SurfaceSet(indices \ {first})

\* the three forms of the argument surfaceNodes of MDB.surfaceSet
AsNodeSet(indices) == [type |-> "NodeSet", indices |-> NodeSet(indices)]

AsName(name) == [type |-> "str", name |-> name]

AsIterable(items) == [type |-> "Iterable", items |-> items]

\* MDB.surfaceSet, the index set of the nodes that lie on the surface: the name of a
\* node set that does not exist raises KeyError
nodeIndexSet(sets, surfaceNodes) ==
    IF surfaceNodes.type = "NodeSet" THEN Returns(Elems(surfaceNodes.indices))
    ELSE IF surfaceNodes.type = "str"
         THEN IF surfaceNodes.name \in Keys(sets)
              THEN Returns(Elems(Get(sets, surfaceNodes.name)))
              ELSE Raises(KeyError)
         ELSE Returns(Elems(surfaceNodes.items))

\* element.nodeIndices[i] for i in localConnectivity
globalConnectivity(element, localConnectivity) ==
    [k \in 1 .. Len(localConnectivity) |-> At(element.nodeIndices, localConnectivity[k])]

\* MDB.surfaceSet with a surface taken when any of its nodes lies in the node set
surfaceSet_any(mdb, name, surfaceNodes) ==
    LET nodes == nodeIndexSet(mdb.nodeSets, surfaceNodes)
        map == mdb.mesh.nodeToElementsMap
        Listed(nodeIndex) == IF nodeIndex < 0 THEN nodeIndex + Len(map) ELSE nodeIndex
        elementIndexSet == UNION {Elems(At(map, Listed(nodeIndex))) : nodeIndex \in nodes.value}
        Surfaces(elementIndex) ==
            LET element == At(mdb.mesh.elements, elementIndex)
                surfaces == ElementTypes_surfaces(element.type)
            IN {<<elementIndex, surfaceIndex>> : surfaceIndex \in
                   {s \in 0 .. Len(surfaces) - 1 :
                       \E nodeIndex \in Elems(globalConnectivity(element, At(surfaces, s))) :
                           nodeIndex \in nodes.value}}
        surfaceIndexSet == UNION {Surfaces(elementIndex) : elementIndex \in elementIndexSet}
    IN IF nodes.raised # None THEN nodes
       ELSE IF \E nodeIndex \in nodes.value : nodeIndex < 0 - Len(map) \/ nodeIndex >= Len(map)
            THEN Raises(IndexError)
       ELSE IF name \in Keys(mdb.surfaceSets) THEN Raises(ValueError)
       ELSE Returns(Append(mdb.surfaceSets, <<name, SurfaceSet(surfaceIndexSet)>>))

\* MDB.surfaceSet: the surface sets after the call, or the exception it raises.  The
\* elements connected to the surface nodes are looked up in the list nodeToElementsMap
\* (an index past its end raises IndexError, a negative index counts from its end), the
\* surfaces whose every node is a surface node are collected, and the name is checked last
surfaceSet(mdb, name, surfaceNodes) ==
    LET nodes == nodeIndexSet(mdb.nodeSets, surfaceNodes)
        map == mdb.mesh.nodeToElementsMap
        Listed(nodeIndex) == IF nodeIndex < 0 THEN nodeIndex + Len(map) ELSE nodeIndex
        elementIndexSet == UNION {Elems(At(map, Listed(nodeIndex))) : nodeIndex \in nodes.value}
        Surfaces(elementIndex) ==
            LET element == At(mdb.mesh.elements, elementIndex)
                surfaces == ElementTypes_surfaces(element.type)
            IN {<<elementIndex, surfaceIndex>> : surfaceIndex \in
                   {s \in 0 .. Len(surfaces) - 1 :
                       \A nodeIndex \in Elems(globalConnectivity(element, At(surfaces, s))) :
                           nodeIndex \in nodes.value}}
        surfaceIndexSet == UNION {Surfaces(elementIndex) : elementIndex \in elementIndexSet}
    IN IF nodes.raised # None THEN nodes
       ELSE IF \E nodeIndex \in nodes.value : nodeIndex < 0 - Len(map) \/ nodeIndex >= Len(map)
            THEN Raises(IndexError)
       ELSE IF name \in Keys(mdb.surfaceSets) THEN Raises(ValueError)
       ELSE Returns(Append(mdb.surfaceSets, <<name, SurfaceSet(surfaceIndexSet)>>))

\* the add methods that check the name first: a name in use raises ValueError, a new
\* name is linked to the object built from the arguments
add(dict, name, value) ==
    IF name \in Keys(dict) THEN Raises(ValueError) ELSE Returns(Append(dict, <<name, value>>))

\* the script adds at most MaxAdds objects to the database
MaxAdds == 2

\* "A" names a node set from the start
PopulateNames == {"A", "top"}

NodeChoices == {{0, 1}, {2}}

ElementChoices == {{0, 1}}

\* surface nodes in each form: a node set, the name of one and a name that is not in
\* use, a tuple that repeats an index, one that counts from the end and one that names
\* a node past the last
SurfaceNodeChoices ==
    { AsNodeSet({0, 1, 2}), AsName("B"), AsName("bottom"),
      AsIterable(<<1, 2, 2, 3>>), AsIterable(<<1, 0 - 1, 3>>), AsIterable(<<0, 1, 7>>) }

Added ==
    Len(nodeSets) - Len(InitialNodeSets) + Len(elementSets) + Len(surfaceSets)
        + Len(materials) + Len(sections) + Len(concentratedLoads) + Len(surfaceTractions)
        + Len(pressures) + Len(bodyLoads) + Len(accelerations) + Len(boundaryConditions)

InitPopulate ==
    /\ mesh \in Meshes
    /\ nodeSets = InitialNodeSets
    /\ ModelEmpty
    /\ boundaryConditions = <<>>
    /\ RunIdle
    /\ pc = "populate"
    /\ Ub = Unset
    /\ assembled = Unset
    /\ CsrIdle
    /\ fs = Unset
    /\ odb = Unset
    /\ passed = Unset
    /\ call = [op |-> "none"]

\* a call of an add method on the category it keeps: the dict of the category is the one
\* the method returns, an exception leaves every dict as it was
Called(op, category, name, arguments, result) ==
    LET After(c, dict) == IF c = category /\ result.raised = None THEN result.value ELSE dict
    IN /\ pc = "populate"
       /\ result.raised = None => Added < MaxAdds
       /\ nodeSets' = After("nodeSets", nodeSets)
       /\ elementSets' = After("elementSets", elementSets)
       /\ surfaceSets' = After("surfaceSets", surfaceSets)
       /\ materials' = After("materials", materials)
       /\ sections' = After("sections", sections)
       /\ concentratedLoads' = After("concentratedLoads", concentratedLoads)
       /\ surfaceTractions' = After("surfaceTractions", surfaceTractions)
       /\ pressures' = After("pressures", pressures)
       /\ bodyLoads' = After("bodyLoads", bodyLoads)
       /\ accelerations' = After("accelerations", accelerations)
       /\ boundaryConditions' = After("boundaryConditions", boundaryConditions)
       /\ call' = [op |-> op, category |-> category, name |-> name, arguments |-> arguments,
                   raised |-> result.raised, before |-> MDB]
       /\ UNCHANGED <<mesh, runVars, pc, numVars, fs, odb, passed>>

CallNodeSet ==
    \E name \in PopulateNames, indices \in NodeChoices :
        Called("nodeSet", "nodeSets", name, <<indices>>,
               add(nodeSets, name, NodeSet(indices)))

CallElementSet ==
    \E name \in PopulateNames, indices \in ElementChoices :
        Called("elementSet", "elementSets", name, <<indices>>,
               add(elementSets, name, ElementSet(indices)))

CallSurfaceSet ==
    \E name \in PopulateNames, surfaceNodes \in SurfaceNodeChoices :
        Called("surfaceSet", "surfaceSets", name, <<surfaceNodes>>,
               surfaceSet(MDB, name, surfaceNodes))

CallMaterial ==
    \E name \in PopulateNames :
        Called("material", "materials", name, <<1, 0, 1>>,
               add(materials, name, Material(1, 0, 1)))

CallSection ==
    \E name \in PopulateNames :
        Called("section", "sections", name, <<"A", "steel", "PlaneStress">>,
               add(sections, name, Section("A", "steel", "PlaneStress", 1, FALSE)))

CallConcentratedLoad ==
    \E name \in PopulateNames :
        Called("concentratedLoad", "concentratedLoads", name, <<"A", 1, 0, 0>>,
               add(concentratedLoads, name, VectorLoad("A", 1, 0, 0)))

CallSurfaceTraction ==
    \E name \in PopulateNames :
        Called("surfaceTraction", "surfaceTractions", name, <<"A", 0, 1, 0>>,
               add(surfaceTractions, name, VectorLoad("A", 0, 1, 0)))

CallPressure ==
    \E name \in PopulateNames :
        Called("pressure", "pressures", name, <<"A", 1>>,
               add(pressures, name, Pressure("A", 1)))

CallBodyLoad ==
    \E name \in PopulateNames :
        Called("bodyLoad", "bodyLoads", name, <<"A", 0, 0, 1>>,
               add(bodyLoads, name, VectorLoad("A", 0, 0, 1)))

CallAcceleration ==
    \E name \in PopulateNames :
        Called("acceleration", "accelerations", name, <<"A", 0, 1, 0>>,
               add(accelerations, name, VectorLoad("A", 0, 1, 0)))

CallBoundaryCondition ==
    \E name \in PopulateNames :
        Called("boundaryCondition", "boundaryConditions", name, <<"A", Some(0), None, None>>,
               add(boundaryConditions, name, BoundaryCondition("A", Some(0), None, None)))

NextPopulate ==
    \/ CallNodeSet
    \/ CallElementSet
    \/ CallSurfaceSet
    \/ CallMaterial
    \/ CallSection
    \/ CallConcentratedLoad
    \/ CallSurfaceTraction
    \/ CallPressure
    \/ CallBodyLoad
    \/ CallAcceleration
    \/ CallBoundaryCondition

SpecPopulate == InitPopulate /\ [][NextPopulate]_vars

-----------------------------------------------------------------------------
(* A calling script that writes and reads an output database: it creates   *)
(* ODB objects on one path, writes frames, moves between frames and reads  *)
(* the current frame back                                                  *)

\* the script writes at most MaxFrames frames to a file
MaxFrames == 2

OdbPath == "a.out"

InitODB ==
    /\ DofIdle
    /\ assembled = Unset
    /\ CsrIdle
    /\ fs \in {[path \in {OdbPath} |-> file] : file \in {Absent, Stale, Frameless}}
    /\ odb = Unset
    /\ passed = [fresh |-> FALSE, frames |-> <<>>]
    /\ call = [op |-> "none"]

\* odb = ODB(OdbPath, mode, replace); when the constructor raises, the script keeps the
\* object it had
Open ==
    \E mode \in {"read", "write"}, replace \in BOOLEAN :
        \E new \in {ODB(fs, OdbPath, mode, replace)} :
            /\ fs' = new.fs
            /\ odb' = IF new.raised = None THEN new.odb ELSE odb
            /\ passed' = IF mode = "read" \/ new.raised # None THEN passed
                         ELSE IF replace \/ ~isfile(fs, OdbPath)
                         THEN [fresh |-> TRUE, frames |-> <<>>]
                         ELSE [passed EXCEPT !.fresh = FALSE]
            /\ call' = [op |-> "ODB", mode |-> mode, replace |-> replace,
                        raised |-> new.raised, before |-> fs[OdbPath]]
            /\ UNCHANGED <<mesh, nodeSets, boundaryConditions, modelVars, runVars, pc,
                           numVars>>

\* odb.writeNextFrame(description, mesh, nodeOutput, globalOutput)
WriteNextFrame ==
    /\ odb # Unset
    /\ odb.frameCount < MaxFrames
    /\ Len(passed.frames) < MaxFrames
    /\ \E frame \in FrameInputs :
          \E written \in {writeNextFrame(fs, odb, frame.description, frame.mesh,
                                         frame.nodeOutput, frame.globalOutput)} :
              /\ fs' = written.fs
              /\ odb' = written.odb
              /\ passed' = IF written.raised # None THEN passed
                           ELSE [passed EXCEPT !.frames = Append(@, frame)]
              /\ call' = [op |-> "writeNextFrame", raised |-> written.raised]
    /\ UNCHANGED <<mesh, nodeSets, boundaryConditions, modelVars, runVars, pc, numVars>>

\* odb.goToFirstFrame(), goToPreviousFrame(), goToNextFrame(), goToLastFrame()
GoTo(name, moved) ==
    /\ odb # Unset
    /\ odb.mode = "r"
    /\ odb' = moved
    /\ call' = [op |-> name, raised |-> None, from |-> odb.currentFrame]
    /\ UNCHANGED <<fs, passed>>
    /\ UNCHANGED <<mesh, nodeSets, boundaryConditions, modelVars, runVars, pc, numVars>>

GoToFirstFrame == odb # Unset /\ GoTo("goToFirstFrame", goToFirstFrame(odb))

GoToPreviousFrame == odb # Unset /\ GoTo("goToPreviousFrame", goToPreviousFrame(odb))

GoToNextFrame == odb # Unset /\ GoTo("goToNextFrame", goToNextFrame(odb))

GoToLastFrame == odb # Unset /\ GoTo("goToLastFrame", goToLastFrame(odb))

\* odb.goToFrame(frame)
GoToFrame ==
    /\ odb # Unset
    /\ odb.mode = "r"
    /\ \E frame \in (0 - 1) .. (MaxFrames + 1) :
          /\ odb' = goToFrame(odb, frame).odb
          /\ call' = [op |-> "goToFrame", frame |-> frame,
                      raised |-> goToFrame(odb, frame).raised, from |-> odb.currentFrame]
    /\ UNCHANGED <<fs, passed>>
    /\ UNCHANGED <<mesh, nodeSets, boundaryConditions, modelVars, runVars, pc, numVars>>

\* the script reads the current frame: the description, [*getNodes()],
\* [*getElements()], the titles, and for each title the values
ReadOutputs(files, self, nodeTitles, globalTitles) ==
    [frame |-> self.currentFrame,
     description |-> getDescription(files, self),
     nodes |-> getNodes(files, self),
     elements |-> getElements(files, self),
     nodeOutputTitles |-> nodeTitles,
     nodeOutput |->
         IF nodeTitles.raised # None THEN <<>>
         ELSE [k \in 1 .. Len(nodeTitles.value) |->
                  getNodeOutputValues(files, self, nodeTitles.value[k])],
     globalOutputTitles |-> globalTitles,
     globalOutput |->
         IF globalTitles.raised # None THEN <<>>
         ELSE [k \in 1 .. Len(globalTitles.value) |->
                  getGlobalOutputValues(files, self, globalTitles.value[k])]]

ReadFrame(files, self) ==
    ReadOutputs(files, self, getNodeOutputTitles(files, self),
                getGlobalOutputTitles(files, self))

GetFrame ==
    /\ odb # Unset
    /\ odb.mode = "r"
    /\ call' = [op |-> "get", read |-> ReadFrame(fs, odb)]
    /\ UNCHANGED <<fs, odb, passed>>
    /\ UNCHANGED <<mesh, nodeSets, boundaryConditions, modelVars, runVars, pc, numVars>>

NextODB ==
    \/ Open
    \/ WriteNextFrame
    \/ GoToFirstFrame
    \/ GoToPreviousFrame
    \/ GoToNextFrame
    \/ GoToLastFrame
    \/ GoToFrame
    \/ GetFrame

SpecODB == InitODB /\ [][NextODB]_vars

-----------------------------------------------------------------------------
(* A calling script that only writes: it opens the path in write mode,     *)
(* with or without replace, any number of times, writes frames through the *)
(* object it holds and moves that object between writes                    *)

InitWriter ==
    /\ DofIdle
    /\ assembled = Unset
    /\ CsrIdle
    /\ fs \in {[path \in {OdbPath} |-> file] : file \in {Absent, Stale}}
    /\ odb = Unset
    /\ passed = Unset
    /\ call = [op |-> "none"]

WriterStep(name, files, self, raised) ==
    /\ fs' = files
    /\ odb' = self
    /\ call' = [op |-> name, raised |-> raised, before |-> fs[OdbPath]]
    /\ UNCHANGED passed
    /\ UNCHANGED <<mesh, nodeSets, boundaryConditions, modelVars, runVars, pc, numVars>>

\* odb = ODB(OdbPath, mode="write", replace=replace)
OpenWriter ==
    \E replace \in BOOLEAN :
        WriterStep(IF replace THEN "replace" ELSE "append",
                   ODB(fs, OdbPath, "write", replace).fs,
                   ODB(fs, OdbPath, "write", replace).odb, None)

\* odb.writeNextFrame(...) with a frame that has no output, while the file holds fewer
\* than MaxFrames frames
WriterWrites ==
    /\ odb # Unset
    /\ isfile(fs, OdbPath)
    /\ CountFrames(fs[OdbPath].lines) < MaxFrames
    /\ \E frame \in {input \in FrameInputs : input.nodeOutput = <<>>} :
          WriterStep("writeNextFrame",
                     writeNextFrame(fs, odb, frame.description, frame.mesh, frame.nodeOutput,
                                    frame.globalOutput).fs,
                     writeNextFrame(fs, odb, frame.description, frame.mesh, frame.nodeOutput,
                                    frame.globalOutput).odb,
                     None)

\* the goTo* calls on the writing object
WriterGoToFirstFrame ==
    odb # Unset /\ WriterStep("goToFirstFrame", fs, goToFirstFrame(odb), None)

WriterGoToPreviousFrame ==
    /\ odb # Unset
    /\ odb.currentFrame > 0 - MaxFrames
    /\ WriterStep("goToPreviousFrame", fs, goToPreviousFrame(odb), None)

WriterGoToNextFrame ==
    /\ odb # Unset
    /\ odb.currentFrame < MaxFrames
    /\ WriterStep("goToNextFrame", fs, goToNextFrame(odb), None)

WriterGoToLastFrame ==
    odb # Unset /\ WriterStep("goToLastFrame", fs, goToLastFrame(odb), None)

WriterGoToFrame ==
    /\ odb # Unset
    /\ \E frame \in (0 - 1) .. MaxFrames :
          WriterStep("goToFrame", fs, goToFrame(odb, frame).odb, goToFrame(odb, frame).raised)

NextWriter ==
    \/ OpenWriter
    \/ WriterWrites
    \/ WriterGoToFirstFrame
    \/ WriterGoToPreviousFrame
    \/ WriterGoToNextFrame
    \/ WriterGoToLastFrame
    \/ WriterGoToFrame

SpecWriter == InitWriter /\ [][NextWriter]_vars

-----------------------------------------------------------------------------
(* A calling script that keeps the iterable a get method returned and      *)
(* consumes it later. getNodes, getElements, getNodeOutputTitles,          *)
(* getGlobalOutputTitles and getNodeOutputValues are generator functions:  *)
(* the call runs no statement of the body, and the body, which starts by   *)
(* reading self._currentFrame, runs when the iterable is first advanced    *)

GeneratorMethods ==
    {"getNodes", "getElements", "getNodeOutputTitles", "getGlobalOutputTitles",
     "getNodeOutputValues"}

GeneratorTitles == {"Displacement>Displacement in X", "Displacement>Magnitude"}

\* the body of the generator function, run to its end on the ODB as it is now
GeneratorBody(files, self, method, title) ==
    CASE method = "getNodes" -> getNodes(files, self)
      [] method = "getElements" -> getElements(files, self)
      [] method = "getNodeOutputTitles" -> getNodeOutputTitles(files, self)
      [] method = "getGlobalOutputTitles" -> getGlobalOutputTitles(files, self)
      [] method = "getNodeOutputValues" -> getNodeOutputValues(files, self, title)

\* the files a run leaves: one to MaxFrames frames written to a new file
WrittenFiles ==
    {WriteFrames(ODB([path \in {OdbPath} |-> Absent], OdbPath, "write", TRUE).fs,
                 ODB([path \in {OdbPath} |-> Absent], OdbPath, "write", TRUE).odb, frames) :
         frames \in UNION {[1 .. n -> FrameInputs] : n \in 1 .. MaxFrames}}

InitIterate ==
    /\ DofIdle
    /\ assembled = Unset
    /\ CsrIdle
    /\ fs \in WrittenFiles
    /\ odb = ODB(fs, OdbPath, "read", FALSE).odb
    /\ passed = None
    /\ call = [op |-> "ODB", mode |-> "read", raised |-> None]

\* iterable = odb.<method>(...): the generator object holds the arguments and the
\* ODB; calledAt records the frame the ODB pointed at, for the properties
CallGenerator ==
    /\ passed = None
    /\ \E method \in GeneratorMethods :
          \E title \in (IF method = "getNodeOutputValues" THEN GeneratorTitles ELSE {""}) :
             /\ passed' = Some([method |-> method, title |-> title,
                                calledAt |-> odb.currentFrame])
             /\ call' = [op |-> method]
    /\ UNCHANGED <<fs, odb>>
    /\ UNCHANGED <<mesh, nodeSets, boundaryConditions, modelVars, runVars, pc, numVars>>

\* [*iterable]
Consume ==
    /\ passed # None
    /\ call' = [op |-> "consume", method |-> passed[1].method, title |-> passed[1].title,
                calledAt |-> passed[1].calledAt,
                yielded |-> GeneratorBody(fs, odb, passed[1].method, passed[1].title)]
    /\ passed' = None
    /\ UNCHANGED <<fs, odb>>
    /\ UNCHANGED <<mesh, nodeSets, boundaryConditions, modelVars, runVars, pc, numVars>>

NextIterate ==
    \/ CallGenerator
    \/ GoToFirstFrame
    \/ GoToPreviousFrame
    \/ GoToNextFrame
    \/ GoToLastFrame
    \/ GoToFrame
    \/ Consume

SpecIterate == InitIterate /\ [][NextIterate]_vars

-----------------------------------------------------------------------------
(* A calling script that merges output databases: two source files and a   *)
(* target path, one merge at a time                                        *)

\* the file writeNextFrame leaves for the frames, written in turn to a new ODB
RECURSIVE Written(_)
Written(frames) ==
    IF frames = <<>> THEN ODB([path \in {"new"} |-> Absent], "new", "write", FALSE)
    ELSE LET before == Written(SubSeq(frames, 1, Len(frames) - 1))
             frame == frames[Len(frames)]
         IN writeNextFrame(before.fs, before.odb, frame.description, frame.mesh,
                           frame.nodeOutput, frame.globalOutput)

\* the frames of the two sources: a static run and a frequency run
SourceFrames(path) ==
    IF path = "a.out"
    THEN << Frame("Increment 0: Time = 0.0", PlaneMesh, <<>>, <<>>),
            Frame("Increment 1: Time = 1.0", PlaneMesh,
                  << <<"Displacement>Displacement in X", <<0, 1, 0 - 2, 3>> >>,
                     <<"Displacement>Displacement in Y", <<0, 0, 10, 0 - 1>> >> >>,
                  <<>>) >>
    ELSE << Frame("Mode 1: Frequency = +1.000E+00", VolumeMesh,
                  << <<"Displacement>Magnitude", <<0, 1, 2, 3, 12>> >> >>,
                  << <<"General>Eigenvalue", 39>>, <<"General>Frequency", 1>> >>) >>

Sources == {"a.out", "b.out"}

Target == "m.out"

\* the selections of the script: none, frames out of order, two sources, a source
\* named twice, a frame taken twice and a source without frames, a frame that is not
\* in the source
Selections ==
    { <<>>,
      << <<"a.out", <<1, 0>> >> >>,
      << <<"a.out", <<1>> >>, <<"b.out", <<0>> >> >>,
      << <<"a.out", <<0>> >>, <<"a.out", <<1>> >> >>,
      << <<"b.out", <<0, 0>> >>, <<"a.out", <<>> >> >>,
      << <<"b.out", <<0>> >>, <<"a.out", <<2>> >> >> }

Overrides == {<<>>, <<"Only">>, <<"First", "Second">>}

\* the files before a merge: the first source, the second source or nothing in its
\* place, the target path free or taken by a stale file
MergeFiles ==
    {[path \in Sources \cup {Target} |->
         IF path = Target THEN target
         ELSE IF path = "b.out" /\ ~second THEN Absent
         ELSE Written(SourceFrames(path)).fs["new"]] :
        target \in {Absent, Stale}, second \in BOOLEAN}

InitMerge ==
    /\ DofIdle
    /\ assembled = Unset
    /\ CsrIdle
    /\ fs \in MergeFiles
    /\ odb = Unset
    /\ passed = Unset
    /\ call = [op |-> "none"]

\* ODB.merge(Target, selection, descriptions, deleteExisting), the selection a tuple or
\* a generator
Merge ==
    /\ call.op # "merge"
    /\ \E items \in Selections, oneShot \in BOOLEAN, descriptions \in Overrides,
          deleteExisting \in BOOLEAN :
           \E merged \in {merge(fs, Target, IF oneShot THEN Generator(items) ELSE List(items),
                                descriptions, deleteExisting)} :
               /\ fs' = merged.fs
               /\ call' = [op |-> "merge", selection |-> items, oneShot |-> oneShot,
                           descriptions |-> descriptions, deleteExisting |-> deleteExisting,
                           raised |-> merged.raised, before |-> fs]
    /\ UNCHANGED <<odb, passed>>
    /\ UNCHANGED <<mesh, nodeSets, boundaryConditions, modelVars, runVars, pc, numVars>>

\* the script starts over: it runs its analyses again and clears the target path or
\* leaves a file there
StartOver ==
    /\ call.op = "merge"
    /\ fs' \in MergeFiles
    /\ call' = [op |-> "start over"]
    /\ UNCHANGED <<odb, passed>>
    /\ UNCHANGED <<mesh, nodeSets, boundaryConditions, modelVars, runVars, pc, numVars>>

NextMerge ==
    \/ Merge
    \/ StartOver

SpecMerge == InitMerge /\ [][NextMerge]_vars

-----------------------------------------------------------------------------
(* A calling script that constructs a mesh from a list of coordinates and  *)
(* a list of elements                                                      *)

\* the node list of the script has at most MaxNodes nodes
MaxNodes == 4

\* the origin, a point on each axis, a point in the plane
Coordinates == {<<0, 0, 0>>, <<1, 0, 0>>, <<0, 1, 0>>, <<0, 0, 1>>, <<1, 1, 0>>}

NodeLists == UNION {[1 .. n -> Coordinates] : n \in 0 .. MaxNodes}

\* element lists: none, plane elements, a line among plane elements, a volume element,
\* a volume element among plane elements, an index past the nodes, a negative index,
\* a node no element names, an element with a node short
ElementLists ==
    { <<>>,
      << <<"Plane3", <<0, 1, 2>> >> >>,
      << <<"Plane3", <<0, 1, 2>> >>, <<"Plane3", <<2, 1, 3>> >> >>,
      << <<"Line2", <<0, 1>> >>, <<"Plane3", <<2, 1, 0>> >> >>,
      << <<"Volume4", <<0, 1, 2, 3>> >> >>,
      << <<"Plane3", <<0, 1, 2>> >>, <<"Volume4", <<3, 2, 1, 0>> >>, <<"Plane3", <<1, 3, 2>> >> >>,
      << <<"Plane3", <<0, 1, 4>> >> >>,
      << <<"Plane3", <<0, 1, 0 - 1>> >> >>,
      << <<"Plane3", <<0, 1, 1>> >> >>,
      << <<"Plane3", <<0, 1>> >> >> }

InitMesh ==
    /\ DofIdle
    /\ assembled = Unset
    /\ CsrIdle
    /\ fs = Unset
    /\ odb = Unset
    /\ \E nodes \in NodeLists, elements \in ElementLists :
          passed = [nodes |-> nodes, elements |-> elements]
    /\ call = [op |-> "none"]

\* mesh = Mesh(nodes, elements); space is what Mesh.__init__ gets from
\* ModelingSpaces.fromCoordinates for its nodes
ConstructMesh ==
    /\ call.op = "none"
    /\ \E new \in {Mesh(passed.nodes, passed.elements)} :
          /\ mesh' = IF new.raised = None THEN new.value ELSE mesh
          /\ call' = [op |-> "Mesh", raised |-> new.raised,
                      space |-> fromCoordinates(Generator(passed.nodes))]
    /\ UNCHANGED <<fs, odb, passed>>
    /\ UNCHANGED <<nodeSets, boundaryConditions, modelVars, runVars, pc, numVars>>

NextMesh == ConstructMesh

SpecMesh == InitMesh /\ [][NextMesh]_vars

-----------------------------------------------------------------------------
(* The post-processor: extrapolation from the integration points of an     *)
(* element to its nodes.  The coordinates and weights of the Gauss points  *)
(* are real numbers; the model holds the number of rows of each table      *)

\* iso.integrationPoints(element)[0].shape[0]: the number of Gauss points of the
\* table the element type and the reduced-integration flag of its section select
integrationPoints(type, reducedIntegration) ==
    CASE type = "Line2" -> IF ~reducedIntegration THEN 2 ELSE 1
      [] type = "Line3" -> IF ~reducedIntegration THEN 3 ELSE 2
      [] type = "Plane3" -> 1
      [] type = "Plane4" -> IF ~reducedIntegration THEN 4 ELSE 1
      [] type = "Plane6" -> 3
      [] type = "Plane8" -> IF ~reducedIntegration THEN 9 ELSE 4
      [] type = "Volume4" -> 1
      [] type = "Volume6" -> 2
      [] type = "Volume8" -> IF ~reducedIntegration THEN 8 ELSE 1
      [] type = "Volume10" -> 4
      [] type = "Volume15" -> 9
      [] type = "Volume20" -> IF ~reducedIntegration THEN 27 ELSE 8

\* iso.extrapolationApproach(element)
extrapolationApproach(type, reducedIntegration) ==
    CASE type = "Line2" -> IF ~reducedIntegration THEN "linear in r" ELSE "constant"
      [] type = "Line3" -> "linear in r"
      [] type = "Plane3" -> "constant"
      [] type = "Plane4" -> IF ~reducedIntegration THEN "bilinear in r, s" ELSE "constant"
      [] type = "Plane6" -> "bilinear in r, s"
      [] type = "Plane8" -> "bilinear in r, s"
      [] type = "Volume4" -> "constant"
      [] type = "Volume6" -> "linear in t"
      [] type = "Volume8" ->
             IF ~reducedIntegration THEN "trilinear in r, s, t" ELSE "constant"
      [] type = "Volume10" -> "trilinear in r, s, t"
      [] type = "Volume15" -> "trilinear in r, s, t"
      [] type = "Volume20" -> "trilinear in r, s, t"

\* A = np.column_stack(...): the number of columns of A in extrapolateWithinElement,
\* one for each term of the basis; the constant approach fits nothing and copies
\* the one value
column_stack(approach) ==
    CASE approach = "constant" -> 1
      [] approach = "linear in r" -> 2
      [] approach = "linear in t" -> 2
      [] approach = "bilinear in r, s" -> 4
      [] approach = "trilinear in r, s, t" -> 8

\* p = np.linalg.lstsq(A, ...)[0] for A with ni rows and the columns of the basis:
\* the coefficients are determined by the fit when A has at least as many rows as
\* columns (and full column rank); with fewer rows lstsq returns the solution of
\* least norm out of infinitely many
lstsq(ni, columns) == [coefficients |-> columns, determined |-> ni >= columns]

-----------------------------------------------------------------------------
(* A caller that extrapolates within one element: the steps of             *)
(* extrapolateWithinElement, for every element type and both values of the *)
(* reduced-integration flag of the section                                 *)

InitExtrapolate ==
    /\ DofIdle
    /\ assembled = Unset
    /\ CsrIdle
    /\ fs = Unset
    /\ odb = Unset
    /\ \E type \in ElementTypeNames, reducedIntegration \in BOOLEAN :
          passed = [type |-> type, reducedIntegration |-> reducedIntegration]
    /\ call = [op |-> "extrapolateWithinElement", at |-> "entry"]

ExtrapolateStep(from, to, locals) ==
    /\ call.op = "extrapolateWithinElement"
    /\ call.at = from
    /\ call' = [at |-> to] @@ locals @@ call
    /\ UNCHANGED <<fs, odb, passed>>
    /\ UNCHANGED <<mesh, nodeSets, boundaryConditions, modelVars, runVars, pc, numVars>>

\* Ci = iso.integrationPoints(element)[0]; ni = Ci.shape[0]
GetIntegrationPoints ==
    ExtrapolateStep("entry", "Ci",
                    [ni |-> integrationPoints(passed.type, passed.reducedIntegration)])

\* Cj = iso.nodes(element); nj = Cj.shape[0]
GetNodes == ExtrapolateStep("Ci", "Cj", [nj |-> ElementTypes_nodeCount(passed.type)])

\* match iso.extrapolationApproach(element)
MatchApproach ==
    ExtrapolateStep("Cj", "match",
                    [approach |-> extrapolationApproach(passed.type,
                                                        passed.reducedIntegration)])

\* the case of the approach: the fit of the coefficients and the values at the nodes
Fit ==
    ExtrapolateStep("match", "return",
                    [p |-> lstsq(call.ni, column_stack(call.approach))])

NextExtrapolate ==
    \/ GetIntegrationPoints
    \/ GetNodes
    \/ MatchApproach
    \/ Fit

SpecExtrapolate == InitExtrapolate /\ [][NextExtrapolate]_vars

-----------------------------------------------------------------------------
(* Properties of the DOF enumeration and of the prescribed displacements   *)

Built == pc \in {"preprocessed", "prescribed"}

SpaceDim == mesh.modelingSpace

NodeIndices == Range0(mesh.nodeCount)

NodeAt(k) == At(mesh.nodes, k)

BCs == Elems(Values(boundaryConditions))

\* the component d of a boundary condition, as given to MDB.boundaryCondition
Component(bc, d) == At(<<bc.u, bc.v, bc.w>>, d)

Supplies(bc, d) == Component(bc, d) # None

Covers(bc, k) == k \in Elems(Get(nodeSets, bc.region))

Prescribed(k, d) == \E bc \in BCs : Covers(bc, k) /\ Supplies(bc, d)

IsInactive(k, d) == d \in Elems(NodeAt(k).inactiveLocalDOFs)

IsActive(k, d) == d \in Elems(NodeAt(k).activeLocalDOFs)

Occurrences(t, x) == Cardinality({p \in 1 .. Len(t) : t[p] = x})

PositionOf(t, x) == CHOOSE p \in 1 .. Len(t) : t[p] = x

StrictlyIncreasing(t) == \A p \in 1 .. Len(t) - 1 : t[p] < t[p + 1]

Iota(k) == [p \in 1 .. k |-> p - 1]

\* the global id the enumeration gave to the DOF (k, d), read from the node
GlobalIdOf(k, d) ==
    IF IsActive(k, d)
    THEN NodeAt(k).activeGlobalDOFs[PositionOf(NodeAt(k).activeLocalDOFs, d)]
    ELSE NodeAt(k).inactiveGlobalDOFs[PositionOf(NodeAt(k).inactiveLocalDOFs, d)]

NoConflictingValues ==
    \A b1, b2 \in BCs : \A k \in NodeIndices : \A d \in Range0(SpaceDim) :
        (Covers(b1, k) /\ Covers(b2, k) /\ Supplies(b1, d) /\ Supplies(b2, d))
            => Component(b1, d) = Component(b2, d)

\* C1: after assemblePrescribedDisplacementVector, for every boundary condition, every
\* node of its region and every component d < n it supplies, Ub at the inactive global
\* id of (node, d) is the supplied value, provided no two conditions supply different
\* values for the same (node, component).
C1_UbHoldsEverySuppliedValue ==
    (pc = "prescribed" /\ NoConflictingValues) =>
        \A bc \in BCs : \A k \in NodeIndices : \A d \in Range0(SpaceDim) :
            (Covers(bc, k) /\ Supplies(bc, d)) =>
                At(Ub, GlobalIdOf(k, d)) = Component(bc, d)[1]

\* C2: after _buildDOFs, the DOF (k, d) with d < n is inactive iff some boundary
\* condition whose region contains k supplies component d (a supplied 0 counts); no
\* component d >= n becomes a DOF, and a DOF no condition prescribes is active.
C2_InactiveIffPrescribed ==
    Built =>
        \A k \in NodeIndices :
            /\ \A d \in Range0(SpaceDim) :
                  /\ IsInactive(k, d) <=> Prescribed(k, d)
                  /\ ~Prescribed(k, d) => IsActive(k, d)
            /\ \A d \in Elems(NodeAt(k).inactiveLocalDOFs) \cup Elems(NodeAt(k).activeLocalDOFs) :
                  d < SpaceDim

C2_Witness ==
    /\ Built
    /\ SpaceDim = TwoDimensional
    /\ \E bc \in BCs : Get(nodeSets, bc.region) # <<>> /\ Supplies(bc, 2)
    /\ \E bc \in BCs : \E k \in NodeIndices :
          Covers(bc, k) /\ bc.u = Some(0) /\ bc.v = None /\ IsInactive(k, 0) /\ IsActive(k, 1)

\* C3: after _buildDOFs, for every node the tuples activeLocalDOFs and inactiveLocalDOFs
\* are disjoint and their union is exactly {0, ..., n-1}.
C3_NodeLocalDOFsPartition ==
    Built =>
        \A k \in NodeIndices :
            LET a == NodeAt(k).activeLocalDOFs
                b == NodeAt(k).inactiveLocalDOFs
            IN /\ Elems(a) \cap Elems(b) = {}
               /\ Elems(a) \cup Elems(b) = Range0(SpaceDim)
               /\ Len(a) + Len(b) = SpaceDim

C3_Witness ==
    /\ Built
    /\ \E p, q \in 1 .. Len(boundaryConditions) :
          LET b1 == boundaryConditions[p][2]
              b2 == boundaryConditions[q][2]
          IN /\ p # q
             /\ b1.region = "A" /\ b2.region = "B"
             /\ Supplies(b1, 0) /\ Supplies(b2, 0) /\ Supplies(b2, 1)
    /\ NodeAt(1).inactiveLocalDOFs = <<0, 1>>
    /\ NodeAt(0).inactiveLocalDOFs = <<0>>

ActiveIdsInNodeOrder ==
    Flatten([k \in 1 .. mesh.nodeCount |-> mesh.nodes[k].activeGlobalDOFs])

InactiveIdsInNodeOrder ==
    Flatten([k \in 1 .. mesh.nodeCount |-> mesh.nodes[k].inactiveGlobalDOFs])

\* C4: after _buildDOFs, the active global ids over all nodes are exactly 0..|active|-1
\* without repeats and the inactive ones exactly 0..|inactive|-1, independently; they grow
\* in node-index order and then component order; activeDOFCount + inactiveDOFCount =
\* nodeCount * n.
C4_DenseIndependentNumbering ==
    Built =>
        /\ ActiveIdsInNodeOrder = Iota(mesh.activeDOFCount)
        /\ InactiveIdsInNodeOrder = Iota(mesh.inactiveDOFCount)
        /\ mesh.activeDOFCount + mesh.inactiveDOFCount = mesh.nodeCount * SpaceDim
        /\ \A k \in NodeIndices :
              /\ StrictlyIncreasing(NodeAt(k).activeLocalDOFs)
              /\ StrictlyIncreasing(NodeAt(k).inactiveLocalDOFs)
              /\ Len(NodeAt(k).activeGlobalDOFs) = Len(NodeAt(k).activeLocalDOFs)
              /\ Len(NodeAt(k).inactiveGlobalDOFs) = Len(NodeAt(k).inactiveLocalDOFs)

C4_Witness ==
    /\ Built
    /\ mesh.inactiveDOFCount >= 3
    /\ mesh.activeDOFCount >= 3
    /\ \E k \in NodeIndices : IsActive(k, 0) /\ IsInactive(k, 1)
    /\ \E k \in NodeIndices : IsInactive(k, 0) /\ IsActive(k, 1)

\* C5: after _buildDOFs, for every element e, local node position i and component d < n,
\* the local DOF i*n + d appears in exactly one of e.activeLocalDOFs / e.inactiveLocalDOFs,
\* the one matching the activity of (e.nodeIndices[i], d), and the entry at the same
\* position of the matching global tuple is the global id of (e.nodeIndices[i], d); each
\* local tuple is in increasing order.
C5_ElementDOFsFollowNodes ==
    Built =>
        \A x \in 1 .. mesh.elementCount :
            LET e == mesh.elements[x]
            IN /\ StrictlyIncreasing(e.activeLocalDOFs)
               /\ StrictlyIncreasing(e.inactiveLocalDOFs)
               /\ Len(e.activeGlobalDOFs) = Len(e.activeLocalDOFs)
               /\ Len(e.inactiveGlobalDOFs) = Len(e.inactiveLocalDOFs)
               /\ Len(e.activeLocalDOFs) + Len(e.inactiveLocalDOFs)
                      = Len(e.nodeIndices) * SpaceDim
               /\ \A i \in Range0(Len(e.nodeIndices)) : \A d \in Range0(SpaceDim) :
                     LET l == i * SpaceDim + d
                         k == At(e.nodeIndices, i)
                     IN IF IsActive(k, d)
                        THEN /\ Occurrences(e.activeLocalDOFs, l) = 1
                             /\ Occurrences(e.inactiveLocalDOFs, l) = 0
                             /\ e.activeGlobalDOFs[PositionOf(e.activeLocalDOFs, l)]
                                    = GlobalIdOf(k, d)
                        ELSE /\ Occurrences(e.inactiveLocalDOFs, l) = 1
                             /\ Occurrences(e.activeLocalDOFs, l) = 0
                             /\ e.inactiveGlobalDOFs[PositionOf(e.inactiveLocalDOFs, l)]
                                    = GlobalIdOf(k, d)

C5_Witness ==
    /\ Built
    /\ \E x \in 1 .. mesh.elementCount :
          LET e == mesh.elements[x]
          IN /\ ~StrictlyIncreasing(e.nodeIndices)
             /\ Len(e.activeLocalDOFs) >= 2
             /\ Len(e.inactiveLocalDOFs) >= 2
             /\ ~StrictlyIncreasing(e.inactiveGlobalDOFs)

-----------------------------------------------------------------------------
(* Properties of the assembly                                              *)

\* the local DOFs of an element, and what the node tuples say about them
LocalDOFs(e) == Range0(Len(e.nodeIndices) * SpaceDim)

NodeOfLocal(e, l) == At(e.nodeIndices, l \div SpaceDim)

LocalIsActive(e, l) == IsActive(NodeOfLocal(e, l), l % SpaceDim)

LocalGlobalId(e, l) == GlobalIdOf(NodeOfLocal(e, l), l % SpaceDim)

\* the entries a block must receive: rowActive, colActive select the block
ExpectedTriplets(rowActive, colActive) ==
    UNION {
        {<<LocalGlobalId(mesh.elements[x], i), LocalGlobalId(mesh.elements[x], j),
           ElementMatrices(mesh)[x][i][j]>> :
            <<i, j>> \in {ij \in LocalDOFs(mesh.elements[x]) \X LocalDOFs(mesh.elements[x]) :
                            /\ LocalIsActive(mesh.elements[x], ij[1]) = rowActive
                            /\ LocalIsActive(mesh.elements[x], ij[2]) = colActive}}
        : x \in 1 .. mesh.elementCount}

Triplets(block) == {<<block.rows[k], block.cols[k], block.vals[k]>> : k \in 1 .. Len(block.vals)}

\* the slot ranges of a block are consecutive, start at 0 and end at the array size
SlotsFillExactly(block) ==
    /\ Len(block.slots) = mesh.elementCount
    /\ Len(block.rows) = Len(block.vals) /\ Len(block.cols) = Len(block.vals)
    /\ \A x \in 1 .. Len(block.slots) :
          /\ block.slots[x][1] = (IF x = 1 THEN 0 ELSE block.slots[x - 1][2])
          /\ block.slots[x][1] <= block.slots[x][2]
    /\ block.slots[Len(block.slots)][2] = Len(block.vals)

BlockEmitsExactlyOnce(block, rowActive, colActive) ==
    LET expected == ExpectedTriplets(rowActive, colActive)
    IN /\ Triplets(block) = expected
       /\ Len(block.vals) = Cardinality(expected)
       /\ SlotsFillExactly(block)

\* the value a SparseCSR object stores at (row, col), 0 where it stores none
StoredPositions(M, row, col) ==
    {p \in (M.rowIndex[row + 1] + 1) .. M.rowIndex[row + 2] : M.columns[p] = col}

StoredValue(M, row, col) == SumAt(M.values, StoredPositions(M, row, col))

RECURSIVE SumTriplets(_)
SumTriplets(S) ==
    IF S = {} THEN 0
    ELSE LET t == CHOOSE t \in S : TRUE IN t[3] + SumTriplets(S \ {t})

BlockIsSum(M, rowActive, colActive) ==
    LET expected == ExpectedTriplets(rowActive, colActive)
    IN \A row \in Range0(M.rowCount) :
           LET inRow == {t \in expected : t[1] = row}
           IN \A col \in Range0(M.columnCount) :
                  StoredValue(M, row, col) = SumTriplets({t \in inRow : t[2] = col})

\* C6: assembleMatrix emits every entry A_e[i,j] of every element matrix exactly once,
\* into the block selected by the activity of the local DOFs i and j, at (global id of i,
\* global id of j); each block built is the sum over the elements of those entries; the
\* per-element slot ranges are disjoint and fill the preallocated arrays exactly.
C6_EveryEntryEmittedOnce ==
    pc = "assembled" =>
        /\ BlockEmitsExactlyOnce(assembled.aa, TRUE, TRUE)
        /\ BlockEmitsExactlyOnce(assembled.ab, TRUE, FALSE)
        /\ BlockEmitsExactlyOnce(assembled.ba, FALSE, TRUE)
        /\ BlockEmitsExactlyOnce(assembled.bb, FALSE, FALSE)
        /\ ~Raised(assembled.result) =>
              /\ BlockIsSum(assembled.result.Maa, TRUE, TRUE)
              /\ BlockIsSum(assembled.result.Mab, TRUE, FALSE)
              /\ BlockIsSum(assembled.result.Mba, FALSE, TRUE)
              /\ BlockIsSum(assembled.result.Mbb, FALSE, FALSE)

C6_Witness ==
    /\ pc = "assembled"
    /\ ~Raised(assembled.result)
    /\ Len(assembled.ab.vals) > 0
    /\ assembled.result.Maa.nonZeroCount < Len(assembled.aa.vals)
    /\ assembled.result.Mbb.nonZeroCount < Len(assembled.bb.vals)
    /\ \E x \in 1 .. mesh.elementCount :
          /\ mesh.elements[x].inactiveLocalDOFs # <<>>
          /\ mesh.elements[x].activeLocalDOFs # <<>>
          /\ ~StrictlyIncreasing(mesh.elements[x].activeGlobalDOFs)

-----------------------------------------------------------------------------
(* Properties of SparseCSR                                                 *)

CooHandle == mkl_sparse_d_create_coo(coo.rowCount, coo.columnCount, Len(coo.values),
                                     coo.rowIndices, coo.columnIndices, coo.values)

CooValue(row, col) == SumAt(coo.values, PositionsOf(CooHandle, row, col))

\* y = A x from the COO data and from the CSR arrays
CooMatVec(x) ==
    [row \in Range0(coo.rowCount) |->
        SumSeq([k \in 1 .. Len(coo.values) |->
                   IF coo.rowIndices[k] = row THEN coo.values[k] * x[coo.columnIndices[k]]
                   ELSE 0])]

CsrMatVec(x) ==
    [row \in Range0(csr.rowCount) |->
        SumSeq([p \in 1 .. Len(csr.values) |->
                   IF csr.rowIndex[row + 1] < p /\ p <= csr.rowIndex[row + 2]
                   THEN csr.values[p] * x[csr.columns[p]]
                   ELSE 0])]

CsrBuilt == csr # Unset /\ ~Raised(csr)

\* C7: for every block built by SparseCSR, within each row the stored column indices are
\* strictly increasing, the stored value at (row, col) is the sum of the COO values
\* emitted for that pair (so the matrix-vector products agree), and rowIndex has length
\* rows + 1 with rowIndex[0] = pointerB[0] and rowIndex[i + 1] = pointerE[i].
C7_CanonicalCSR ==
    CsrBuilt =>
        /\ csr.rowCount = coo.rowCount /\ csr.columnCount = coo.columnCount
        /\ Len(csr.rowIndex) = csr.rowCount + 1
        /\ csr.rowIndex[1] = csr.pointerB[1]
        /\ \A i \in 1 .. csr.rowCount : csr.rowIndex[i + 1] = csr.pointerE[i]
        /\ \A i \in 1 .. csr.rowCount :
              /\ csr.rowIndex[i] <= csr.rowIndex[i + 1]
              /\ \A p \in (csr.rowIndex[i] + 1) .. (csr.rowIndex[i + 1] - 1) :
                    csr.columns[p] < csr.columns[p + 1]
        /\ csr.rowIndex[csr.rowCount + 1] = Len(csr.columns)
        /\ Len(csr.values) = Len(csr.columns)
        /\ \A row \in Range0(coo.rowCount) : \A col \in Range0(coo.columnCount) :
              /\ StoredValue(csr, row, col) = CooValue(row, col)
              /\ Cardinality(StoredPositions(csr, row, col))
                     = (IF PositionsOf(CooHandle, row, col) = {} THEN 0 ELSE 1)
        /\ \A x \in [Range0(coo.columnCount) -> {0, 1}] : CsrMatVec(x) = CooMatVec(x)

C7_Witness ==
    /\ CsrBuilt
    /\ csr.rowCount = 2
    /\ csr.nonZeroCount = 2
    /\ Len(coo.values) = 3
    /\ coo.columnIndices[1] > coo.columnIndices[2]
    /\ coo.rowIndices[1] = coo.rowIndices[2]
    /\ \E k \in 1 .. 2 : coo.rowIndices[k] = coo.rowIndices[3]
                         /\ coo.columnIndices[k] = coo.columnIndices[3]

-----------------------------------------------------------------------------
(* Properties of solve and of the validator                                *)

InLog(message) == \E k \in 1 .. Len(log) : log[k] = message

InErrors(message) == \E k \in 1 .. Len(report.errors) : report.errors[k] = message

Ended == pc \in {"returned", "raised"}

PastChecks == pc \in {"checked", "preprocessed", "returned", "raised"}

Aborted == InLog("Solver has stopped prematurely due to errors (see above)")

\* every warning, every error and the summary line are in the log
Reported ==
    /\ \A k \in 1 .. Len(report.warnings) : InLog("[Warning] " \o report.warnings[k])
    /\ \A k \in 1 .. Len(report.errors) : InLog("[Error] " \o report.errors[k])
    /\ InLog(Summary(Len(report.errors), Len(report.warnings)))

\* _buildDOFs has not run on the mesh: the DOF tuples and counts are not assigned
DOFsNotBuilt ==
    /\ IsUnset(mesh.activeDOFCount) /\ IsUnset(mesh.inactiveDOFCount)
    /\ \A k \in 1 .. mesh.nodeCount :
          IsUnset(mesh.nodes[k].activeLocalDOFs) /\ IsUnset(mesh.nodes[k].inactiveLocalDOFs)
    /\ \A k \in 1 .. mesh.elementCount :
          /\ IsUnset(mesh.elements[k].activeLocalDOFs)
          /\ IsUnset(mesh.elements[k].inactiveLocalDOFs)

\* _assignElementProperties has not run on the mesh
PropertiesNotAssigned ==
    \A k \in 1 .. mesh.elementCount :
        /\ IsUnset(mesh.elements[k].nodes)
        /\ IsUnset(mesh.elements[k].section)
        /\ IsUnset(mesh.elements[k].material)

MeshUntouched == DOFsNotBuilt /\ PropertiesNotAssigned

\* _buildDOFs and _assignElementProperties have both run on the mesh
MeshPreProcessed ==
    /\ ~IsUnset(mesh.activeDOFCount) /\ ~IsUnset(mesh.inactiveDOFCount)
    /\ \A k \in 1 .. mesh.nodeCount : ~IsUnset(mesh.nodes[k].activeLocalDOFs)
    /\ \A k \in 1 .. mesh.elementCount :
          /\ ~IsUnset(mesh.elements[k].activeLocalDOFs)
          /\ ~IsUnset(mesh.elements[k].nodes)
          /\ ~IsUnset(mesh.elements[k].section)
          /\ ~IsUnset(mesh.elements[k].material)

DriverTitles == {"STATIC ANALYSIS", "FREQUENCY ANALYSIS", "BUCKLING ANALYSIS"}

RequestedKind == StripLower(args.analysis)

ValidRequest == RequestedKind \in {"static", "frequency", "buckling"}

RequestedDriverEntered ==
    /\ ValidRequest
    /\ InLog(AnalysisTitle(RequestedKind)[1])
    /\ InLog(DriverLog(RequestedKind, 0)[1])
    /\ \A title \in DriverTitles \ {AnalysisTitle(RequestedKind)[1]} : ~InLog(title)

C8_AbortedRun ==
    Aborted =>
        /\ pc = "returned"
        /\ Len(report.errors) > 0
        /\ Reported
        /\ MeshUntouched
        /\ outFile \in OutFiles
        /\ ~InLog("PRE-PROCESSING")
        /\ \A title \in DriverTitles : ~InLog(title)

C8_CleanRun ==
    (Ended /\ Len(report.errors) = 0) =>
        /\ ~Aborted
        /\ Reported
        /\ MeshPreProcessed
        /\ InLog("PRE-PROCESSING")
        /\ (ValidRequest => RequestedDriverEntered)

C8_Safety ==
    /\ PastChecks => Reported
    /\ Ended => (Aborted <=> Len(report.errors) > 0)
    /\ C8_AbortedRun
    /\ C8_CleanRun

\* C8: solve aborts if and only if checkMDB returns at least one error.  An aborted run
\* has logged every warning, every error and the summary line, and has returned without
\* _buildDOFs or _assignElementProperties, without a driver and without creating or
\* replacing the .out file.  A run with no error, whatever the number of warnings,
\* goes on to the pre-processing and then enters the requested driver.
C8_AbortsIffErrors ==
    /\ []C8_Safety
    /\ (pc = "checked" /\ Len(report.errors) > 0) ~> (pc = "returned" /\ Aborted)
    /\ (pc = "checked" /\ Len(report.errors) = 0) ~> (pc = "preprocessed" /\ MeshPreProcessed)
    /\ (pc = "checked" /\ Len(report.errors) = 0 /\ ValidRequest)
           ~> (Ended /\ RequestedDriverEntered)

C8_Witness ==
    /\ pc = "returned"
    /\ Aborted
    /\ Len(report.errors) > 1
    /\ Len(report.warnings) > 1
    /\ outFile = Stale
    /\ sections # <<>>

MassDensityError == "the mass density must be specified for a frequency analysis"

\* C9: for a frequency analysis, checkMDB reports the mass-density error if and only if
\* no material of the MDB has a density greater than zero: one material of positive
\* density is enough for the check to pass, whatever the density of the others.
C9_DensityErrorIffNoPositiveDensity ==
    (pc = "validated" /\ args.analysis = "frequency") =>
        (InErrors(MassDensityError)
            <=> ~\E k \in 1 .. Len(materials) : materials[k][2].density > 0)

\* the sections that cover an element: the element's index belongs to the element set
\* the section's region names; a region that names no element set covers nothing
CoveringSections(e) ==
    {name \in Keys(sections) :
        /\ Get(sections, name).region \in Keys(elementSets)
        /\ e \in Elems(Get(elementSets, Get(sections, name).region))}

SectionAssignmentError == "elements with undefined or over-defined section assignments detected"

\* C10: checkMDB reports the error about undefined or over-defined section assignments
\* if and only if some element of the mesh is not covered by exactly one section.
C10_SectionErrorIffNotExactlyOne ==
    pc = "validated" =>
        (InErrors(SectionAssignmentError)
            <=> \E e \in Range0(mesh.elementCount) : Cardinality(CoveringSections(e)) # 1)

\* every element is covered, one of them twice; an index outside the mesh and a region
\* that names no element set are both around
C10_Witness ==
    /\ pc = "validated"
    /\ InErrors(SectionAssignmentError)
    /\ \A e \in Range0(mesh.elementCount) : CoveringSections(e) # {}
    /\ \E k \in 1 .. Len(elementSets) : Max(Elems(elementSets[k][2])) >= mesh.elementCount

-----------------------------------------------------------------------------
(* Properties of the output database                                       *)

\* what reading a frame back returns when it recovers the frame that was passed to
\* writeNextFrame: the description, the coordinates, the elements, the titles in
\* order, the values of each title, the global values
Recovers(read, frame) ==
    /\ read.description = Returns(frame.description)
    /\ read.nodes =
           [k \in 1 .. frame.mesh.nodeCount |-> Returns(frame.mesh.nodes[k].coordinates)]
    /\ read.elements =
           [k \in 1 .. frame.mesh.elementCount |->
               Returns(<<frame.mesh.elements[k].type, frame.mesh.elements[k].nodeIndices>>)]
    /\ read.nodeOutputTitles =
           Returns([k \in 1 .. Len(frame.nodeOutput) |-> frame.nodeOutput[k][1]])
    /\ read.nodeOutput =
           [k \in 1 .. Len(frame.nodeOutput) |->
               [r \in 1 .. Len(frame.nodeOutput[k][2]) |-> Returns(frame.nodeOutput[k][2][r])]]
    /\ read.globalOutputTitles =
           Returns([k \in 1 .. Len(frame.globalOutput) |-> frame.globalOutput[k][1]])
    /\ read.globalOutput =
           [k \in 1 .. Len(frame.globalOutput) |-> Returns(frame.globalOutput[k][2])]

\* C11: after the frames 0 .. k-1 were written to an ODB created anew in write mode, an
\* ODB opened on the file in read mode has frameCount = k, and reading frame i returns
\* the description, the mesh, the node output per title and the global output that were
\* passed for the i-th written frame.
C11_RoundTrip ==
    /\ (call.op = "ODB" /\ call.mode = "read" /\ call.raised = None /\ passed.fresh)
           => odb.frameCount = Len(passed.frames)
    /\ (call.op = "get" /\ passed.fresh /\ call.read.frame \in Range0(Len(passed.frames)))
           => Recovers(call.read, At(passed.frames, call.read.frame))

\* the first of two frames is read back; it has two node output titles, the other
\* frame has global output
C11_Witness ==
    /\ call.op = "get"
    /\ passed.fresh
    /\ Len(passed.frames) = 2
    /\ call.read.frame = 0
    /\ Len(passed.frames[1].nodeOutput) = 2
    /\ passed.frames[2].globalOutput # <<>>
    /\ Len(call.read.nodeOutput) = 2

\* C14: the current frame of an ODB opened in read mode stays within
\* 0 .. frameCount - 1; goToPreviousFrame at frame 0 and goToNextFrame at the last frame
\* change nothing and raise nothing; goToFrame with an index outside the range raises
\* ValueError and leaves the current frame; a new ODB points at the last frame.
C14_Navigation ==
    /\ (odb # Unset /\ odb.mode = "r")
           => (0 <= odb.currentFrame /\ odb.currentFrame <= odb.frameCount - 1)
    /\ (call.op = "goToPreviousFrame" /\ call.from = 0)
           => (odb.currentFrame = 0 /\ call.raised = None)
    /\ (call.op = "goToNextFrame" /\ call.from = odb.frameCount - 1)
           => (odb.currentFrame = call.from /\ call.raised = None)
    /\ (call.op = "goToFrame" /\ (call.frame < 0 \/ call.frame >= odb.frameCount))
           => (call.raised = Some(ValueError) /\ odb.currentFrame = call.from)
    /\ (call.op = "goToFrame" /\ call.frame >= 0 /\ call.frame < odb.frameCount)
           => (call.raised = None /\ odb.currentFrame = call.frame)
    /\ (call.op = "ODB" /\ call.mode = "read" /\ call.raised = None)
           => odb.currentFrame = odb.frameCount - 1

\* at the first of two frames, goToFrame is called with the index past the last frame
C14_Witness ==
    /\ call.op = "goToFrame"
    /\ odb.frameCount = 2
    /\ call.frame = 2
    /\ call.from = 0
    /\ call.raised = Some(ValueError)

\* the file has a line that is $FRAME once stripped
HasFrames(file) == \E i \in 1 .. Len(file.lines) : strip(file.lines[i]) = "$FRAME"

\* C15: opening in read mode a file without a $FRAME line raises MissingFrameError;
\* opening in read mode a path without a file raises ValueError; opening an existing
\* file in read mode with replace=True raises RuntimeError and leaves the file as it was.
C15_ReadModeErrors ==
    call.op = "ODB" /\ call.mode = "read" =>
        /\ (call.before # Absent /\ ~call.replace /\ ~HasFrames(call.before))
               => call.raised = Some(MissingFrameError)
        /\ call.before = Absent => call.raised = Some(ValueError)
        /\ (call.before # Absent /\ call.replace)
               => (call.raised = Some(RuntimeError) /\ fs[OdbPath] = call.before)

\* a file that is no output database, though one of its lines starts with $FRAME
C15_Witness ==
    /\ call.op = "ODB"
    /\ call.mode = "read"
    /\ ~call.replace
    /\ call.before = Frameless
    /\ call.raised = Some(MissingFrameError)

\* the (path, frame) pairs of a selection, in order
RECURSIVE Pairs(_)
Pairs(items) ==
    IF items = <<>> THEN <<>>
    ELSE [k \in 1 .. Len(items[1][2]) |-> <<items[1][1], items[1][2][k]>>] \o Pairs(Tail(items))

\* the lines that follow the $FRAME lines of a file, in order
FrameNumbers(file) ==
    LET marked == SortedTuple({i \in 2 .. Len(file.lines) : file.lines[i - 1] = "$FRAME"})
    IN [k \in 1 .. Len(marked) |-> file.lines[marked[k]]]

\* the j-th frame of the target, read back through an ODB opened in read mode
TargetFrame(j) ==
    ReadFrame(fs, goToFrame(ODB(fs, Target, "read", FALSE).odb, j).odb)

\* C12: when ODB.merge returns, the target holds one frame for each (source, frame
\* index) pair of the selection, in selection order, numbered 0, 1, 2, ...; the j-th
\* frame carries the mesh, the node output and the global output of its source frame,
\* and descriptions[j] when descriptions is not empty, the description of the source
\* frame otherwise; what the target path held before is gone.
C12_MergeCopiesSelection ==
    (call.op = "merge" /\ call.raised = None) =>
        LET pairs == Pairs(call.selection)
        IN /\ isfile(fs, Target)
           /\ FrameNumbers(fs[Target]) = [j \in 1 .. Len(pairs) |-> ToString(j - 1)]
           /\ CountFrames(fs[Target].lines) = Len(pairs)
           /\ \A j \in 1 .. Len(pairs) :
                 /\ isfile(call.before, pairs[j][1])
                 /\ Recovers(TargetFrame(j - 1),
                             [At(SourceFrames(pairs[j][1]), pairs[j][2]) EXCEPT
                                 !.description =
                                     IF call.descriptions = <<>> THEN @
                                     ELSE call.descriptions[j]])

\* frames of two sources merged over a stale target, the descriptions overridden
C12_Witness ==
    /\ call.op = "merge"
    /\ call.raised = None
    /\ call.before[Target] = Stale
    /\ Len(call.selection) = 2
    /\ Len(Pairs(call.selection)) = 2
    /\ call.selection[1][1] # call.selection[2][1]
    /\ call.descriptions = <<"First", "Second">>
    /\ CountFrames(fs[Target].lines) = 2

\* a selection the sources can serve: every source is a file, every frame index is one
\* of its frames, and descriptions, when given, has one entry for each selected frame
Servable ==
    /\ \A k \in 1 .. Len(call.selection) :
          /\ isfile(call.before, call.selection[k][1])
          /\ \A frame \in Elems(call.selection[k][2]) :
                frame \in Range0(Len(SourceFrames(call.selection[k][1])))
    /\ call.descriptions = <<>> \/ Len(call.descriptions) >= Len(Pairs(call.selection))

\* C13: ODB.merge serves every servable selection, a tuple or a one-shot iterable, with
\* or without a source named twice; when it returns with deleteExisting=True every
\* source named in the selection is removed and the target holds all selected frames;
\* with deleteExisting=False every source file is as it was.
C13_DeleteExisting ==
    call.op = "merge" =>
        /\ Servable => call.raised = None
        /\ (call.raised = None /\ call.deleteExisting) =>
               /\ \A k \in 1 .. Len(call.selection) : ~isfile(fs, call.selection[k][1])
               /\ isfile(fs, Target)
               /\ CountFrames(fs[Target].lines) = Len(Pairs(call.selection))
        /\ (call.raised = None /\ ~call.deleteExisting) =>
               \A path \in Sources : fs[path] = call.before[path]

-----------------------------------------------------------------------------
(* Properties of the mesh                                                  *)

\* the elements of the input that reside in the modeling space of the mesh, in input
\* order
InputOfSpace ==
    SelectSeq(passed.elements,
              LAMBDA element : ElementTypes_modelingSpace(element[1]) = mesh.modelingSpace)

NonzeroAxes(nodes) ==
    Cardinality({dim \in 1 .. 3 : \E k \in 1 .. Len(nodes) : nodes[k][dim] # 0})

\* C17: the modeling space Mesh construction infers is the number of axes along which
\* at least one node has a nonzero coordinate, whatever the order of the node list.
C17_SpaceCountsAxes ==
    call.op = "Mesh" =>
        /\ NonzeroAxes(passed.nodes) >= 1 => call.space = Returns(NonzeroAxes(passed.nodes))
        /\ call.raised = None => mesh.modelingSpace = NonzeroAxes(passed.nodes)

-----------------------------------------------------------------------------
(* Properties of populating the model database                             *)

\* C18: in every category of the MDB, the add method called with a name already in use
\* in that category raises ValueError and leaves the whole MDB as it was; a name in use
\* in other categories only does not raise ValueError.
C18_DuplicateNameRaisesValueError ==
    call.op # "none" =>
        IF call.name \in Keys(call.before[call.category])
        THEN call.raised = Some(ValueError) /\ MDB = call.before
        ELSE call.raised # Some(ValueError)

\* the node indices the argument of the last surfaceSet call stands for
SurfaceNodes ==
    LET surfaceNodes == call.arguments[1]
    IN IF surfaceNodes.type = "NodeSet" THEN Elems(surfaceNodes.indices)
       ELSE IF surfaceNodes.type = "str" THEN Elems(Get(call.before.nodeSets, surfaceNodes.name))
       ELSE Elems(surfaceNodes.items)

\* the surfaces of the mesh, as pairs (element index, local surface index), whose every
\* global node is a surface node
SurfacesWithin(S) ==
    {<<At(mesh.elements, e).index, surfaceIndex>> :
        <<e, surfaceIndex>> \in
            {p \in (0 .. mesh.elementCount - 1) \X (0 .. 3) :
                LET element == At(mesh.elements, p[1])
                    surfaces == ElementTypes_surfaces(element.type)
                IN /\ p[2] < Len(surfaces)
                   /\ \A k \in 1 .. Len(At(surfaces, p[2])) :
                         At(element.nodeIndices, At(surfaces, p[2])[k]) \in S}}

\* C19: a surfaceSet call that returns has stored under its name the pairs (element
\* index, local surface index) of exactly the surfaces whose every global node is one of
\* the surface nodes, in increasing order and without duplicates, in each of the three
\* forms of the argument.
C19_SurfaceSetFromNodes ==
    call.op = "surfaceSet" /\ call.raised = None =>
        LET stored == Get(surfaceSets, call.name)
        IN /\ Elems(stored) = SurfacesWithin(SurfaceNodes)
           /\ \A k \in 1 .. Len(stored) - 1 :
                 \/ stored[k][1] < stored[k + 1][1]
                 \/ stored[k][1] = stored[k + 1][1] /\ stored[k][2] < stored[k + 1][2]

\* the name of a node set of two nodes gives the surfaces of two elements, and a second
\* surface lies on one of these nodes and a node outside the set
C19_Witness ==
    /\ call.op = "surfaceSet"
    /\ call.raised = None
    /\ call.arguments[1].type = "str"
    /\ Len(Get(surfaceSets, call.name)) = 2
    /\ Get(surfaceSets, call.name)[1][1] # Get(surfaceSets, call.name)[2][1]
    /\ mesh.modelingSpace = TwoDimensional

-----------------------------------------------------------------------------
(* Properties of the output file of a run                                  *)

\* the run has returned from its driver
Successful == pc = "returned" /\ ~Aborted

\* the number of frames the driver has announced in the log
FramesAnnounced ==
    Cardinality({k \in 1 .. Len(log) : startswith(log[k], "Writing output frame ")})

\* frame j of the .out file, read through an ODB opened in read mode: its header
OutFrame(j) ==
    LET files == [path \in {"job.out"} |-> outFile]
        self == goToFrame(ODB(files, "job.out", "read", FALSE).odb, j).odb
    IN [description |-> getDescription(files, self),
        nodeCount |-> Len(getNodes(files, self)),
        elementCount |-> Len(getElements(files, self)),
        nodeOutputTitles |-> getNodeOutputTitles(files, self),
        globalOutputTitles |-> getGlobalOutputTitles(files, self)]

\* C20: after a successful static run the .out file holds exactly two frames, numbered
\* 0 and 1 in this order, frame 0 with the mesh and no node or global output, frame 1
\* with the result fields, whatever the file held before the run; after a successful
\* frequency or buckling run it holds one frame for each extracted mode, numbered from 0.
C20_FramesOfRun ==
    Successful =>
        /\ outFile # Absent
        /\ FrameNumbers(outFile) = [j \in 1 .. FramesAnnounced |-> ToString(j - 1)]
        /\ CountFrames(outFile.lines) = FramesAnnounced
        /\ RequestedKind = "static" =>
              /\ FramesAnnounced = 2
              /\ OutFrame(0) = [description |-> Returns("Increment 0: Time = 0.0"),
                                nodeCount |-> mesh.nodeCount,
                                elementCount |-> mesh.elementCount,
                                nodeOutputTitles |-> Returns(<<>>),
                                globalOutputTitles |-> Returns(<<>>)]
              /\ OutFrame(1) = [description |-> Returns("Increment 1: Time = 1.0"),
                                nodeCount |-> mesh.nodeCount,
                                elementCount |-> mesh.elementCount,
                                nodeOutputTitles |-> Returns(StaticNodeOutputTitles),
                                globalOutputTitles |->
                                    Returns(<<"General>Time", "General>Residual",
                                              "General>Strain Energy">>)]

\* a static run on the plane mesh has returned and its file holds frames 0 and 1
C20_Witness ==
    /\ Successful
    /\ RequestedKind = "static"
    /\ mesh.modelingSpace = TwoDimensional
    /\ FrameNumbers(outFile) = <<"0", "1">>
    /\ Len(outFile.lines) > Len(Stale.lines)

-----------------------------------------------------------------------------
(* Properties of the extrapolation                                         *)

\* C23: for every element type and both values of the reduced-integration flag, the
\* number of Gauss points integrationPoints returns is at least the number of terms
\* of the basis extrapolationApproach names (constant 1, linear 2, bilinear 4,
\* trilinear 8)
C23_GaussPointsCoverBasis ==
    call.at \in {"match", "return"} => call.ni >= column_stack(call.approach)

-----------------------------------------------------------------------------
(* Properties of a file written through several objects                    *)

\* an ODB opened on the file in read mode finds, for every frame of the file, the
\* commands of the frame
Indexed(file) ==
    LET opened == ODB([path \in {OdbPath} |-> file], OdbPath, "read", FALSE)
    IN /\ opened.raised = None
       /\ \A j \in 1 .. opened.odb.frameCount :
             Keys(opened.odb.linePointers[j]) # {}

\* C24: the index written after each $FRAME line is the 0-based position of the frame
\* among the frames of the file, and an ODB opened in read mode indexes every frame,
\* after any sequence of write-mode opens of the path (with or without replace), of
\* writeNextFrame calls and of goTo* calls on the writing object.
C24_FrameIndexIsPosition ==
    (isfile(fs, OdbPath) /\ CountFrames(fs[OdbPath].lines) > 0) =>
        /\ FrameNumbers(fs[OdbPath]) =
               [j \in 1 .. CountFrames(fs[OdbPath].lines) |-> ToString(j - 1)]
        /\ Indexed(fs[OdbPath])

-----------------------------------------------------------------------------
(* Properties of the iterables of the ODB                                  *)

\* C25: the iterable returned by getNodes, getElements, getNodeOutputTitles,
\* getGlobalOutputTitles or getNodeOutputValues yields the data of the frame that was
\* current when the method was called, also when a navigation call was made on the ODB
\* before the iterable is consumed.
C25_IterableOfFrameAtCall ==
    call.op = "consume" =>
        call.yielded = GeneratorBody(fs, [odb EXCEPT !.currentFrame = call.calledAt],
                                     call.method, call.title)

-----------------------------------------------------------------------------
(* Properties of the checks of a frequency run                             *)

\* the run has entered the frequency driver
FrequencyDriverRan == \E i \in 1 .. Len(log) : log[i] = "FREQUENCY ANALYSIS"

\* C26: in every run that executes the frequency driver, that is for every analysis
\* argument that solve normalises to "frequency", the model database checks included
\* the frequency checks: the mass density error and the two warnings.
C26_FrequencyChecksApplied ==
    (pc \in {"returned", "raised"} /\ FrequencyDriverRan) =>
        /\ report.errors =
               CommonChecks(MDB).errors \o checkFrequencyAnalysis(MDB).errors
        /\ report.warnings =
               CommonChecks(MDB).warnings \o checkFrequencyAnalysis(MDB).warnings

-----------------------------------------------------------------------------
(* Properties of the pre-processing of a validated model                   *)

\* C28: when checkMDB has returned no errors, _buildDOFs and _assignElementProperties
\* complete without a lookup failure, and afterwards every element has its nodes, the
\* one section that covers it and the material of that section.
C28_ValidatedModelPrepares ==
    /\ pc # "raised"
    /\ pc = "prepared" =>
           \A k \in 1 .. Len(mesh.elements) :
              /\ mesh.elements[k].nodes = mesh.elements[k].nodeIndices
              /\ Cardinality(CoveringSections(k - 1)) = 1
              /\ \A name \in CoveringSections(k - 1) :
                    /\ mesh.elements[k].section = Get(sections, name)
                    /\ Get(sections, name).material \in Keys(materials)
                    /\ mesh.elements[k].material =
                           Get(materials, Get(sections, name).material)

\* two sections that name different materials, each covering one of the two elements
C28_Witness ==
    /\ pc = "prepared"
    /\ Len(sections) = 2
    /\ mesh.elements[1].section.region # mesh.elements[2].section.region
    /\ mesh.elements[1].section.material # mesh.elements[2].section.material
    /\ mesh.elements[1].material = Get(materials, mesh.elements[1].section.material)

-----------------------------------------------------------------------------
(* Properties of the assembly of degenerate partitions                     *)

\* C22: the assembly of the four blocks succeeds for every DOF partition that
\* _buildDOFs produces, the free mesh (no inactive DOF) included: a block that receives
\* no COO entry or has no rows is an empty matrix of the declared shape, and no
\* exception is raised.
C22_AssemblySucceeds ==
    pc = "assembled" =>
        /\ ~Raised(assembled.result)
        /\ assembled.result.Mab.rowCount = mesh.activeDOFCount
        /\ assembled.result.Mab.columnCount = mesh.inactiveDOFCount
        /\ assembled.result.Mbb.rowCount = mesh.inactiveDOFCount
        /\ assembled.result.Mbb.nonZeroCount <= Len(assembled.bb.vals)

-----------------------------------------------------------------------------
(* Properties of the assembly in another order                             *)

\* C29: for a fixed DOF enumeration the four assembled blocks (rowIndex, columns and
\* values of the canonical CSR) and the assembled vectors Va and Vb are identical for
\* every permutation of the element sequence, the element matrices or vectors being
\* permuted alike.
C29_OrderIndependent ==
    /\ assembled.M # <<>> => assembled.M[1] = assembled.M[2]
    /\ assembled.V # <<>> => assembled.V[1] = assembled.V[2]

\* the number of elements that add to the global DOF of the given kind
ContributionCount(field, globalDOF) ==
    Cardinality({k \in 1 .. mesh.elementCount : globalDOF \in Elems(mesh.elements[k][field])})

\* every sum of the run is exact: every entry is a small integer
ExactSums == \A k \in 1 .. Len(passed.vectors) : \A i \in 1 .. Len(passed.vectors[k]) :
                 passed.vectors[k][i].big = 0

\* C29 (amended): for a fixed DOF enumeration and every permutation of the element
\* sequence, the four blocks are identical when the element matrices hold integers
\* whose sums are exact in float64, and so are Va and Vb when the sums of the element
\* vectors are exact; an entry of Va or Vb that receives the contributions of at most
\* two elements is identical whatever the values.
C29_OrderIndependentWhenExact ==
    /\ assembled.M # <<>> => assembled.M[1] = assembled.M[2]
    /\ (assembled.V # <<>> /\ ExactSums) => assembled.V[1] = assembled.V[2]
    /\ assembled.V # <<>> =>
           /\ \A g \in 1 .. mesh.activeDOFCount :
                 ContributionCount("activeGlobalDOFs", g - 1) <= 2
                     => assembled.V[1].Va[g] = assembled.V[2].Va[g]
           /\ \A g \in 1 .. mesh.inactiveDOFCount :
                 ContributionCount("inactiveGlobalDOFs", g - 1) <= 2
                     => assembled.V[1].Vb[g] = assembled.V[2].Vb[g]

\* the elements were assembled in the reverse order after another order, for the
\* matrix and for the vector; an entry of Va received 2.0^53 and 1.0 from two elements
\* and is the same, an entry with three contributions is not
C29_Witness ==
    /\ call.op = "assembleVector"
    /\ call.order = <<3, 2, 1>>
    /\ assembled.M # <<>>
    /\ ~Raised(assembled.M[2])
    /\ assembled.V[1] # assembled.V[2]
    /\ \E g \in 1 .. mesh.activeDOFCount :
          /\ ContributionCount("activeGlobalDOFs", g - 1) = 2
          /\ assembled.V[2].Va[g] = [big |-> 1, small |-> 0]

-----------------------------------------------------------------------------
(* Properties of loop                                                      *)

\* C30: loop returns one result per argument tuple, in the order of the arguments,
\* for every value of processes and every order in which the workers finish, so the
\* k-th result is the one of the k-th element, in parallel as in sequential mode.
C30_ResultsInArgumentOrder ==
    pc = "returned" =>
        /\ Len(assembled) = Len(passed.arguments)
        /\ \A k \in 1 .. Len(passed.arguments) :
              assembled[k] = procedure(passed.arguments[k])

\* three different elements were mapped by a pool, and the task of the last element
\* was finished before the task of the first
C30_Witness ==
    /\ pc = "pool"
    /\ Len(passed.arguments) = 3
    /\ passed.arguments[1] # passed.arguments[3]
    /\ call.value[3] # None
    /\ call.value[1] = None

-----------------------------------------------------------------------------
(* Properties of the import                                                *)

\* the mesh element is the one built from the file element of the label: the type the
\* file gives converts to its type, and its nodes are those of the data line
BuiltFrom(element, label) ==
    /\ from3rdParty(passed.types[label]) = Some(element.type)
    /\ element.nodeIndices =
           [q \in 1 .. Len(Numbers(removed(ElementLine(label, passed.types[label]), " "), 1)) |->
               Numbers(removed(ElementLine(label, passed.types[label]), " "), 1)[q] - 1]

\* C27: after MDB.fromFile, every index i of an imported element set refers to the mesh
\* element that was built from the file element with label i + 1, also when elements of
\* unsupported types or of another modeling space are dropped and the remaining
\* elements are re-indexed.
C27_SetIndicesFollowElements ==
    (call.op = "fromFile" /\ call.raised = None) =>
        \A k \in 1 .. Len(elementSets) : \A i \in Elems(elementSets[k][2]) :
            /\ i < mesh.elementCount
            /\ BuiltFrom(mesh.elements[i + 1], i + 1)

-----------------------------------------------------------------------------
(* Properties of the cleaning                                              *)

\* the labels of the elements of a supported type in the file given to clean, and the
\* labels of the nodes they refer to
Surviving == {p \in 1 .. 3 : passed.types[p] \in Elems(SUPPORTED_ELEMENT_TYPES)}

UsedNodes == UNION {Elems(GmshConnectivity(p, passed.types[p])) : p \in Surviving}

\* the new label of a used node: its rank among the used nodes
NewNodeLabel(old) == Cardinality({l \in UsedNodes : l <= old})

\* the data lines of the blocks of the keyword, in file order
RECURSIVE DataLines(_, _, _, _)
DataLines(lines, k, keyword, readData) ==
    IF k > Len(lines) THEN <<>>
    ELSE IF Ch(lines[k], 1) = "*" THEN DataLines(lines, k + 1, keyword, Keyword(lines[k]) = keyword)
    ELSE (IF readData THEN <<lines[k]>> ELSE <<>>) \o DataLines(lines, k + 1, keyword, readData)

\* the element of the rewritten file that the element of the old label became: its type,
\* and the new labels of its nodes, as the reader returns them (from 0)
Renumbered(p) ==
    <<passed.types[p],
      [q \in 1 .. Len(GmshConnectivity(p, passed.types[p])) |->
          NewNodeLabel(GmshConnectivity(p, passed.types[p])[q]) - 1]>>

NewElementLabel(written, p) == CHOOSE j \in 1 .. Len(written) : written[j] = Renumbered(p)

\* the nodes of the rewritten file are the used nodes, labelled 1, 2, ... by increasing
\* old label, each with the coordinates it had
NodesCleaned(lines, used) ==
    /\ Len(lines) = Len(used)
    /\ \A q \in 1 .. Len(lines) :
          /\ int(Keyword(lines[q])).value = q
          /\ Coordinates3(LineFields(lines[q], 1)) = <<GmshX(used[q]), 0, 0>>

\* the elements of the rewritten file are the elements of supported types, labelled
\* 1, 2, ..., each with the new labels of its nodes
ElementsCleaned(lines, written) ==
    /\ Len(lines) = Cardinality(Surviving)
    /\ Len(written) = Cardinality(Surviving)
    /\ \A q \in 1 .. Len(lines) : int(Keyword(lines[q])).value = q
    /\ Elems(written) = {Renumbered(p) : p \in Surviving}

\* the sets of the keyword in the rewritten file: none if no member is left, else the
\* one set with the new labels of the members that are left (the reader counts from 0)
SetCleaned(sets, name, members) ==
    IF members = {} THEN sets = <<>>
    ELSE /\ Len(sets) = 1
         /\ sets[1][1] = name
         /\ Elems(sets[1][2]) = {label - 1 : label \in members}

FileCleaned(lines) ==
    /\ NodesCleaned(DataLines(lines, 1, "*NODE", FALSE), SortedTuple(UsedNodes))
    /\ ElementsCleaned(DataLines(lines, 1, "*ELEMENT", FALSE), ScanElements(lines, 1, FALSE, ""))
    /\ SetCleaned(ScanSets(lines, 1, "*NSET",
                           [readData |-> FALSE, generate |-> FALSE, setName |-> "",
                            partName |-> "", indices |-> <<>>]),
                  "EDGE", {NewNodeLabel(l) : l \in Elems(passed.nodeLabels) \cap UsedNodes})
    /\ SetCleaned(ScanSets(lines, 1, "*ELSET",
                           [readData |-> FALSE, generate |-> FALSE, setName |-> "",
                            partName |-> "", indices |-> <<>>]),
                  "SKIN",
                  {NewElementLabel(ScanElements(lines, 1, FALSE, ""), p) :
                      p \in Elems(passed.elementLabels) \cap Surviving})

\* C21: after clean(file) on an input whose node labels are 1..N, the rewritten file
\* lists only the nodes referenced by an element of a supported type, labelled 1..N'
\* consecutively in increasing order of their old labels; only the elements of supported
\* types, labelled 1..M' consecutively; every connectivity entry is the new label of the
\* same node; every node set and element set holds exactly the new labels of its
\* surviving members, and a set left empty is omitted.
C21_CleanRenumbers ==
    (call.op = "clean" /\ call.raised = None) =>
        FileCleaned(cleanLines(fs[passed.path].lines))

\* clean has rewritten a file from which it dropped an element, a node, a member of the
\* element set and a member of the node set, and in which a quadrilateral came before a
\* triangle
C21_Witness ==
    /\ call.op = "clean"
    /\ call.raised = None
    /\ Surviving # {}
    /\ Surviving # 1 .. 3
    /\ UsedNodes # 1 .. 5
    /\ Elems(passed.elementLabels) \cap Surviving # {}
    /\ Elems(passed.elementLabels) \ Surviving # {}
    /\ Elems(passed.nodeLabels) \cap UsedNodes # {}
    /\ Elems(passed.nodeLabels) \ UsedNodes # {}
    /\ \E p, r \in Surviving : p < r /\ passed.types[p] = "CPS4" /\ passed.types[r] = "CPS3"
====
